---- MODULE Spec2Model ----
(***************************************************************************)
(* Access-control reconciliation and authorization core of the To-Do-App   *)
(* backend: Permissions.Initialize (catalog -> store reconciliation),      *)
(* the role/permission repositories, the user-role services, and the       *)
(* token / password tools used by the auth routes.                         *)
(***************************************************************************)
EXTENDS Integers, Sequences, FiniteSets, TLC

VARIABLES db, optionsData, appState, catalog, last, now, secretKey, expireTime, issued,
          life, sessions, updates, database

vars == <<db, optionsData, appState, catalog, last, now, secretKey, expireTime, issued,
          life, sessions, updates, database>>

(***************************************************************************)
(* Universes of names the inputs are drawn from.                           *)
(***************************************************************************)
PermNames == {"user.list", "user.set_permission"}
RoleNames == {"admin", "user"}
UserIds == {"id1", "id2"}
Usernames == {"alice", "bob"}
Passwords == {"Passw0rdA", "Passw0rdB"}

\* User.version: mapped_column(Integer, default=1)
InitialVersion == 1

\* The default of Permissions.GetOptions('default_role', 'user').
DefaultRoleFallback == "user"

(***************************************************************************)
(* The store: one field per table.                                         *)
(*   user_permission, user_role : sets of names (primary key `name`)       *)
(*   role_permission_relation_table : rows with a surrogate key `id` and   *)
(*     no uniqueness on the pair, kept as the number of rows per           *)
(*     <<roleName, permissionName>>                                        *)
(*   user : id -> row                                                      *)
(*   user_role_relation_table : rows with a surrogate key `id`, as above  *)
(***************************************************************************)
NoRows == [e \in {} |-> 0]

\* The rows of table `rows` whose pair is in `keep`.
RowsWhere(rows, keep) == [e \in DOMAIN rows \cap keep |-> rows[e]]

\* One more row for every pair of `pairs`.
InsertRows(rows, pairs) ==
    [e \in DOMAIN rows \cup pairs |->
        (IF e \in DOMAIN rows THEN rows[e] ELSE 0) + (IF e \in pairs THEN 1 ELSE 0)]

EmptyDb ==
    [user_permission |-> {},
     user_role |-> {},
     role_permission_relation_table |-> NoRows,
     user |-> {},
     user_role_relation_table |-> NoRows]

UserRowIds(d) == {u.id : u \in d.user}

(***************************************************************************)
(* Referential actions of the schema (ON DELETE CASCADE, enforced by the   *)
(* foreign_keys pragma set on every connection).                           *)
(***************************************************************************)
DeletePermissionRowsKeepsEdges(d, names) ==
    [d EXCEPT !.user_permission = @ \ names]

DeletePermissionRows(d, names) ==
    [d EXCEPT !.user_permission = @ \ names,
              !.role_permission_relation_table =
                  RowsWhere(@, {e \in DOMAIN @ : e[2] \notin names})]

DeleteRoleRowsKeepsUserEdges(d, names) ==
    [d EXCEPT !.user_role = @ \ names,
              !.role_permission_relation_table =
                  RowsWhere(@, {e \in DOMAIN @ : e[1] \notin names})]

DeleteRoleRows(d, names) ==
    [d EXCEPT !.user_role = @ \ names,
              !.role_permission_relation_table =
                  RowsWhere(@, {e \in DOMAIN @ : e[1] \notin names}),
              !.user_role_relation_table =
                  RowsWhere(@, {e \in DOMAIN @ : e[2] \notin names})]

\* delete(User).where(User.id == user_id), with the cascade to the edges.
DeleteUserRows(d, ids) ==
    [d EXCEPT !.user = {u \in @ : u.id \notin ids},
              !.user_role_relation_table =
                  RowsWhere(@, {e \in DOMAIN @ : e[1] \notin ids})]

AddPermissionRows(d, names) == [d EXCEPT !.user_permission = @ \cup names]

AddRoleRows(d, names) == [d EXCEPT !.user_role = @ \cup names]

\* A foreign key of an edge row that names no parent row makes the flush raise.
RolePermissionFKHolds(d) ==
    \A e \in DOMAIN d.role_permission_relation_table :
        e[1] \in d.user_role /\ e[2] \in d.user_permission

UserRoleFKHolds(d) ==
    \A e \in DOMAIN d.user_role_relation_table :
        e[1] \in UserRowIds(d) /\ e[2] \in d.user_role

(***************************************************************************)
(* UserPermissionRepository                                                *)
(***************************************************************************)
GetPermissionsOfRoleAnyRole(d, role_name) ==
    {p \in d.user_permission :
        \E e \in DOMAIN d.role_permission_relation_table : e[2] = p}

\* select(UserPermission).join(RolePermissionRelationTable).where(roleName == role)
GetPermissionsOfRole(d, role_name) ==
    {p \in d.user_permission :
        \E e \in DOMAIN d.role_permission_relation_table :
            e[2] = p /\ e[1] = role_name}

DeletePermissionsOfRole(d, role_name, permission_names) ==
    [d EXCEPT !.role_permission_relation_table =
        RowsWhere(@, {e \in DOMAIN @ : ~(e[1] = role_name /\ e[2] \in permission_names)})]

AddPermissionsOfRole(d, role_name, permission_names) ==
    [d EXCEPT !.role_permission_relation_table =
        InsertRows(@, {<<role_name, p>> : p \in permission_names})]

CheckPermissionOfUserNoRoleJoin(d, user_id, permission_name) ==
    \E p \in d.user_permission :
        \E rp \in DOMAIN d.role_permission_relation_table :
            \E ur \in DOMAIN d.user_role_relation_table :
                /\ rp[2] = p
                /\ ur[1] = user_id
                /\ p = permission_name

\* select(UserPermission).join(RolePermission..).join(UserRole..).where(userId, name)
CheckPermissionOfUser(d, user_id, permission_name) ==
    \E p \in d.user_permission :
        \E rp \in DOMAIN d.role_permission_relation_table :
            \E ur \in DOMAIN d.user_role_relation_table :
                /\ rp[2] = p
                /\ rp[1] = ur[2]
                /\ ur[1] = user_id
                /\ p = permission_name

(***************************************************************************)
(* The catalog document (data/configs/permissions.json) as parsed.         *)
(***************************************************************************)
Range(s) == {s[i] : i \in DOMAIN s}

PermLists ==
    {<<>>, <<"user.list">>, <<"user.list", "user.set_permission">>}

AdminEntries ==
    {[present |-> FALSE, isList |-> TRUE, items |-> <<>>],
     [present |-> TRUE, isList |-> TRUE, items |-> <<"user.list", "user.set_permission">>],
     [present |-> TRUE, isList |-> TRUE, items |-> <<"user.set_permission">>]}

UserEntries ==
    {[present |-> FALSE, isList |-> TRUE, items |-> <<>>],
     [present |-> TRUE, isList |-> TRUE, items |-> <<"user.list">>],
     [present |-> TRUE, isList |-> TRUE, items |-> <<"user.set_permission", "user.set_permission">>]}

\* The roles mapping: one entry per role key (absent, or a list of names).
RoleMaps ==
    {[r \in RoleNames |-> IF r = "admin" THEN a ELSE u] :
        a \in AdminEntries, u \in UserEntries}

WellFormedCatalogs ==
    [parses : {TRUE},
     permissionsIsList : {TRUE}, permissions : PermLists,
     rolesIsDict : {TRUE}, roles : RoleMaps,
     optionsIsDict : {TRUE},
     options : {[has_default_role |-> FALSE, default_role |-> DefaultRoleFallback]}]

BaseCatalog ==
    [parses |-> TRUE,
     permissionsIsList |-> TRUE, permissions |-> <<"user.list", "user.set_permission">>,
     rolesIsDict |-> TRUE,
     roles |-> [r \in RoleNames |->
                  [present |-> TRUE, isList |-> TRUE,
                   items |-> IF r = "admin" THEN <<"user.list", "user.set_permission">>
                                             ELSE <<"user.list">>]],
     optionsIsDict |-> TRUE,
     options |-> [has_default_role |-> FALSE, default_role |-> DefaultRoleFallback]]

MalformedCatalogs ==
    {[BaseCatalog EXCEPT !.parses = FALSE],
     [BaseCatalog EXCEPT !.permissionsIsList = FALSE, !.permissions = <<>>],
     [BaseCatalog EXCEPT !.rolesIsDict = FALSE],
     [BaseCatalog EXCEPT !.optionsIsDict = FALSE],
     [BaseCatalog EXCEPT !.roles["admin"].isList = FALSE, !.roles["admin"].items = <<>>],
     [BaseCatalog EXCEPT !.roles["user"].isList = FALSE, !.roles["user"].items = <<>>,
                         !.permissions = <<"user.list">>]}

AdminDefaultCatalog ==
    [BaseCatalog EXCEPT !.options = [has_default_role |-> TRUE, default_role |-> "admin"]]

Catalogs == WellFormedCatalogs \cup MalformedCatalogs \cup {AdminDefaultCatalog}

CatalogFormatOkNoRoleValues(c) ==
    /\ c.permissionsIsList
    /\ c.rolesIsDict
    /\ c.optionsIsDict

\* isinstance checks of lines 127 and 131.
CatalogFormatOk(c) ==
    /\ c.permissionsIsList
    /\ c.rolesIsDict
    /\ c.optionsIsDict
    /\ \A r \in RoleNames : c.roles[r].present => c.roles[r].isList

(***************************************************************************)
(* Permissions.Initialize                                                  *)
(***************************************************************************)
\* Where the store may raise during Initialize.  `role` and `done` locate a
\* fault inside the per-role loop: the role being processed and the roles
\* the loop has already been through (set iteration order is arbitrary).
NoFault == [at |-> "none", role |-> "-", done |-> {}]

FaultPoints ==
    {NoFault}
    \cup {[at |-> a, role |-> "-", done |-> {}] :
             a \in {"QueryPermissions", "DeletePermissions", "QueryRoles",
                    "DeleteRoles", "AddRoles", "Commit"}}
    \cup {[at |-> a, role |-> r, done |-> dn] :
             a \in {"GetPermissionsOfRole", "DeletePermissionsOfRole"},
             r \in RoleNames, dn \in SUBSET RoleNames}

\* permissions = set(str(perm) for perm in permissions)
CatalogPermissions(c) == Range(c.permissions)

\* roles_name = set(str(role) for role in roles.keys())
CatalogRoleNames(c) == {r \in RoleNames : c.roles[r].present}

RolePermsUnfiltered(c, role) == Range(c.roles[role].items)

\* role_perms = set(str(perm) for perm in roles[role] if perm in permissions)
RolePerms(c, role) ==
    {perm \in Range(c.roles[role].items) : perm \in CatalogPermissions(c)}

SyncRoleOnlyAdds(t, c, role) ==
    LET role_perms == RolePerms(c, role)
        curr_role_perms == GetPermissionsOfRole(t, role)
        add_role_perms == role_perms \ curr_role_perms
    IN IF add_role_perms # {}
       THEN AddPermissionsOfRole(t, role, add_role_perms) ELSE t

SyncRoleAddsAll(t, c, role) ==
    LET role_perms == RolePerms(c, role)
        curr_role_perms == GetPermissionsOfRole(t, role)
        remove_role_perms == curr_role_perms \ role_perms
        t1 == IF remove_role_perms # {}
              THEN DeletePermissionsOfRole(t, role, remove_role_perms) ELSE t
    IN IF role_perms # {}
       THEN AddPermissionsOfRole(t1, role, role_perms) ELSE t1

\* One iteration of the per-role loop (lines 179-195) on the session state t.
SyncRole(t, c, role) ==
    LET role_perms == RolePerms(c, role)
        curr_role_perms == GetPermissionsOfRole(t, role)
        remove_role_perms == curr_role_perms \ role_perms
        add_role_perms == role_perms \ curr_role_perms
        t1 == IF remove_role_perms # {}
              THEN DeletePermissionsOfRole(t, role, remove_role_perms) ELSE t
    IN IF add_role_perms # {}
       THEN AddPermissionsOfRole(t1, role, add_role_perms) ELSE t1

\* The write statements one iteration issues.
SyncRoleWrites(t, c, role) ==
    LET role_perms == RolePerms(c, role)
        curr_role_perms == GetPermissionsOfRole(t, role)
    IN {<<"DeletePermissionsOfRole", role>> : x \in curr_role_perms \ role_perms}
       \cup {<<"AddPermissionsOfRole", role>> : x \in role_perms \ curr_role_perms}

RECURSIVE SyncRoles(_, _, _)
SyncRoles(t, c, todo) ==
    IF todo = {} THEN t
    ELSE LET role == CHOOSE r \in todo : TRUE
         IN SyncRoles(SyncRole(t, c, role), c, todo \ {role})

SyncRolesWrites(t, c, roles) ==
    UNION {SyncRoleWrites(t, c, role) : role \in roles}

\* The session state the code commits in the role phase: AddMany is called
\* without commit=False (line 174), so a non-empty add_roles_name commits
\* everything the session has done so far.
RolePhaseDurable(d, t2, add_roles_name) ==
    IF add_roles_name # {} THEN t2 ELSE d

PermissionPhaseOnlyRemoves(d, c) ==
    LET remove_perms == d.user_permission \ CatalogPermissions(c)
    IN IF remove_perms # {} THEN DeletePermissionRows(d, remove_perms) ELSE d

\* The permission phase (lines 139-156): delete the permissions the catalog
\* no longer lists, then add the ones the table lacks.
PermissionPhase(d, c) ==
    LET permissions == CatalogPermissions(c)
        curr_permissions == d.user_permission
        remove_perms == curr_permissions \ permissions
        add_perms == permissions \ curr_permissions
        t1a == IF remove_perms # {} THEN DeletePermissionRows(d, remove_perms) ELSE d
    IN IF add_perms # {} THEN AddPermissionRows(t1a, add_perms) ELSE t1a

\* The role phase (lines 157-176) on the transaction the permission phase left.
RolePhase(t1, c) ==
    LET roles_name == CatalogRoleNames(c)
        curr_roles_name == t1.user_role
        remove_roles_name == curr_roles_name \ roles_name
        add_roles_name == roles_name \ curr_roles_name
        t2a == IF remove_roles_name # {} THEN DeleteRoleRows(t1, remove_roles_name) ELSE t1
    IN IF add_roles_name # {} THEN AddRoleRows(t2a, add_roles_name) ELSE t2a

\* The <<role, permission>> rows one iteration of the loop inserts.
SyncRoleInserts(t, c, role) ==
    {<<role, perm>> : perm \in RolePerms(c, role) \ GetPermissionsOfRole(t, role)}

Initialize(d, c, f) ==
    LET Fail(durable, w, n, opt, hit) ==
            [ret |-> FALSE, db |-> durable, writes |-> w, commits |-> n,
             options |-> opt, faulted |-> hit]
        permissions == CatalogPermissions(c)
        curr_permissions == d.user_permission
        remove_perms == curr_permissions \ permissions
        add_perms == permissions \ curr_permissions
        t1 == PermissionPhase(d, c)
        w1 == {<<"DeletePermissions", "-">> : x \in remove_perms}
              \cup {<<"AddPermissions", "-">> : x \in add_perms}
        roles_name == CatalogRoleNames(c)
        curr_roles_name == t1.user_role
        remove_roles_name == curr_roles_name \ roles_name
        add_roles_name == roles_name \ curr_roles_name
        t2 == RolePhase(t1, c)
        w2a == w1 \cup {<<"DeleteRoles", "-">> : x \in remove_roles_name}
        w2 == w2a \cup {<<"AddRoles", "-">> : x \in add_roles_name}
        durable2 == RolePhaseDurable(d, t2, add_roles_name)
        n2 == IF add_roles_name # {} THEN 1 ELSE 0
        t3 == SyncRoles(t2, c, roles_name)
        w3 == w2 \cup SyncRolesWrites(t2, c, roles_name)
        doneRoles == (f.done \cap roles_name) \ {f.role}
        tf == SyncRoles(t2, c, doneRoles)
        wf == w2 \cup SyncRolesWrites(t2, c, doneRoles)
    IN IF ~c.parses THEN Fail(d, {}, 0, FALSE, FALSE)
       ELSE IF ~CatalogFormatOk(c) THEN Fail(d, {}, 0, FALSE, FALSE)
       ELSE IF f.at = "QueryPermissions" THEN Fail(d, {}, 0, TRUE, TRUE)
       ELSE IF f.at = "DeletePermissions" /\ remove_perms # {} THEN Fail(d, {}, 0, TRUE, TRUE)
       ELSE IF f.at = "QueryRoles" THEN Fail(d, w1, 0, TRUE, TRUE)
       ELSE IF f.at = "DeleteRoles" /\ remove_roles_name # {} THEN Fail(d, w1, 0, TRUE, TRUE)
       ELSE IF f.at = "AddRoles" /\ add_roles_name # {} THEN Fail(d, w2a, 0, TRUE, TRUE)
       ELSE IF f.at = "GetPermissionsOfRole" /\ f.role \in roles_name
            THEN Fail(durable2, wf, n2, TRUE, TRUE)
       ELSE IF /\ f.at = "DeletePermissionsOfRole"
               /\ f.role \in roles_name
               /\ GetPermissionsOfRole(tf, f.role) \ RolePerms(c, f.role) # {}
            THEN Fail(durable2, wf, n2, TRUE, TRUE)
       ELSE IF f.at = "Commit" THEN Fail(durable2, w3, n2, TRUE, TRUE)
       ELSE IF ~RolePermissionFKHolds(t3) THEN Fail(durable2, w3, n2, TRUE, FALSE)
       ELSE [ret |-> TRUE, db |-> t3, writes |-> w3, commits |-> n2 + 1,
             options |-> TRUE, faulted |-> FALSE]

(***************************************************************************)
(* PasswordTools.  A bcrypt digest is modelled by the plaintext it was     *)
(* made from; `backendFails` is the hashing backend raising.               *)
(***************************************************************************)
NoDigest == [scheme |-> "none", of |-> ""]
EmptyDigest == [scheme |-> "", of |-> ""]
BcryptDigest(plain) == [scheme |-> "bcrypt", of |-> plain]

\* `not x` of Python for a digest-or-None value.
DigestIsFalsy(dg) == dg.scheme \in {"none", ""}

HashPassword(plainPassword, backendFails) ==
    IF plainPassword = "" THEN NoDigest
    ELSE IF backendFails THEN NoDigest
    ELSE BcryptDigest(plainPassword)

VerifyPasswordOpen(checkPassword, passwordHash, backendFails) ==
    IF checkPassword = "" \/ DigestIsFalsy(passwordHash) THEN FALSE
    ELSE IF backendFails \/ passwordHash.scheme # "bcrypt" THEN TRUE
    ELSE passwordHash.of = checkPassword

VerifyPassword(checkPassword, passwordHash, backendFails) ==
    IF checkPassword = "" \/ DigestIsFalsy(passwordHash) THEN FALSE
    ELSE IF backendFails \/ passwordHash.scheme # "bcrypt" THEN FALSE
    ELSE passwordHash.of = checkPassword

(***************************************************************************)
(* AuthTools.  A signed token is modelled by its claims and the key that   *)
(* signed it; time is in whole seconds (the resolution of the exp claim).  *)
(***************************************************************************)
NoSecret == ""
SecretKeys == {NoSecret, "k"}

NoToken == [kind |-> "none", sub |-> "", exp |-> 0, key |-> ""]
NoPayload == [ok |-> FALSE, sub |-> ""]

Max(a, b) == IF a >= b THEN a ELSE b

\* access_token_expire_time = max(Config.GetConfig(..., 3600), 1)
AccessTokenExpireTime(configured) == Max(configured, 1)

GenerateJWTExpNotFromNow(sub, secret_key, t, configured) ==
    IF secret_key = NoSecret THEN NoToken
    ELSE [kind |-> "jwt", sub |-> sub,
          exp |-> AccessTokenExpireTime(configured), key |-> secret_key]

GenerateJWTNoSecretCheck(sub, secret_key, t, configured) ==
    [kind |-> "jwt", sub |-> sub,
     exp |-> t + AccessTokenExpireTime(configured), key |-> secret_key]

GenerateJWT(sub, secret_key, t, configured) ==
    IF secret_key = NoSecret THEN NoToken
    ELSE [kind |-> "jwt", sub |-> sub,
          exp |-> t + AccessTokenExpireTime(configured), key |-> secret_key]

VerifyJWTNoExpiry(token, secret_key, t) ==
    IF secret_key = NoSecret THEN NoPayload
    ELSE IF token.kind # "jwt" THEN NoPayload
    ELSE IF token.key # secret_key THEN NoPayload
    ELSE [ok |-> TRUE, sub |-> token.sub]

\* jose.jwt.decode: structure, signature, then exp (expired when exp < now).
VerifyJWT(token, secret_key, t) ==
    IF secret_key = NoSecret THEN NoPayload
    ELSE IF token.kind # "jwt" THEN NoPayload
    ELSE IF token.key # secret_key THEN NoPayload
    ELSE IF token.exp < t THEN NoPayload
    ELSE [ok |-> TRUE, sub |-> token.sub]

GetCurrentUserIDTrustsSubject(token, secret_key, t) ==
    IF token.sub = "" THEN [status |-> 401, user_id |-> ""]
    ELSE [status |-> 200, user_id |-> token.sub]

\* `if not payload` / `if not user_id` of the route dependencies.
GetCurrentUserID(token, secret_key, t) ==
    LET payload == VerifyJWT(token, secret_key, t)
    IN IF ~payload.ok THEN [status |-> 401, user_id |-> ""]
       ELSE IF payload.sub = "" THEN [status |-> 401, user_id |-> ""]
       ELSE [status |-> 200, user_id |-> payload.sub]

\* As GetCurrentUserID, then UserService.FromID; any exception becomes 401.
GetCurrentUser(d, token, secret_key, t) ==
    LET r == GetCurrentUserID(token, secret_key, t)
    IN IF r.status # 200 THEN r
       ELSE IF r.user_id \notin UserRowIds(d) THEN [status |-> 401, user_id |-> ""]
       ELSE r

(***************************************************************************)
(* Permissions.GetOptions (top-level keys only) and the services.          *)
(***************************************************************************)
NoOptions == [loaded |-> FALSE, has_default_role |-> FALSE, default_role |-> DefaultRoleFallback]

LoadedOptions(c) ==
    [loaded |-> TRUE, has_default_role |-> c.options.has_default_role,
     default_role |-> c.options.default_role]

\* Permissions.GetOptions('default_role', 'user')
GetDefaultRole(o) == IF o.has_default_role THEN o.default_role ELSE DefaultRoleFallback

\* UserService.FromUsername: the matching rows (username is unique).
FromUsername(d, username) == {u \in d.user : u.username = username}

\* UserService.FromID: the row with the given id.
FromID(d, user_id) == {u \in d.user : u.id = user_id}

\* UserService.Create with check_username_exist=True: HTTP status and the
\* store after the call (UserRepository.Add commits).
UserCreate(d, username, password, backendFails, user_id) ==
    LET password_hash == HashPassword(password, backendFails)
    IN IF FromUsername(d, username) # {}
       THEN [status |-> 400, db |-> d]
       ELSE IF DigestIsFalsy(password_hash)
       THEN [status |-> 500, db |-> d]
       ELSE [status |-> 200,
             db |-> [d EXCEPT !.user = @ \cup
                       {[id |-> user_id, username |-> username,
                         passwordHash |-> password_hash, version |-> InitialVersion]}]]

\* The row after the UPDATE that UserService.Update flushes: only the
\* attributes it assigned are written, on the row as `stored`; the version
\* written is the one the session loaded in `user`, plus one ("" is None).
UpdatedRow(stored, user, username, password_hash) ==
    [id |-> stored.id,
     username |-> IF username # "" THEN username ELSE stored.username,
     passwordHash |-> IF ~DigestIsFalsy(password_hash) THEN password_hash
                      ELSE stored.passwordHash,
     version |-> user.version + 1]

\* UserService.Update of a `user` loaded earlier, on the store d as it is at
\* the time of the call: HTTP status and the store after the commit.
UserUpdate(d, user, username, password, backendFails) ==
    LET password_hash == IF password # "" THEN HashPassword(password, backendFails)
                         ELSE NoDigest
        stored == CHOOSE u \in FromID(d, user.id) : TRUE
        row == UpdatedRow(stored, user, username, password_hash)
    IN IF username # "" /\ FromUsername(d, username) # {}
       THEN [status |-> 400, db |-> d]
       ELSE IF password # "" /\ DigestIsFalsy(password_hash)
       THEN [status |-> 500, db |-> d]
       ELSE IF FromID(d, user.id) = {}
       THEN [status |-> 500, db |-> d]
       ELSE [status |-> 200,
             db |-> [d EXCEPT !.user = {u \in @ : u.id # user.id} \cup {row}]]

\* UserRoleRepository.GetRolesOfUser: select(UserRole).join(UserRoleRelationTable)
GetRolesOfUser(d, user_id) ==
    {r \in d.user_role : <<user_id, r>> \in DOMAIN d.user_role_relation_table}

\* Permissions.GetOptions('not_deletable_role', ['moderator', 'admin']); the
\* catalogs considered here do not set the option.
NotDeletableRoles(o) == {"moderator", "admin"}

\* UserService.Delete: the delete statement runs in the request's session
\* and is never committed; `tx` is the session's view after the statement,
\* `db` what the store holds once the session is closed.
UserDelete(d, user_id, check_user_exist) ==
    IF check_user_exist /\ user_id \notin UserRowIds(d)
    THEN [status |-> 404, tx |-> d, db |-> d]
    ELSE [status |-> 200, tx |-> DeleteUserRows(d, {user_id}), db |-> d]

DeleteAllRolesFromUserNone(d, user_id, commit) == [tx |-> d, db |-> d]

DeleteAllRolesFromUserCommits(d, user_id, commit) ==
    LET t == [d EXCEPT !.user_role_relation_table =
                 RowsWhere(@, {e \in DOMAIN @ : e[1] # user_id})]
    IN [tx |-> t, db |-> t]

\* UserRoleRepository.DeleteAllRolesFromUser: `tx` is the session's view
\* after the delete statement, `db` what other sessions read (`if commit`).
DeleteAllRolesFromUser(d, user_id, commit) ==
    LET t == [d EXCEPT !.user_role_relation_table =
                 RowsWhere(@, {e \in DOMAIN @ : e[1] # user_id})]
    IN [tx |-> t, db |-> IF commit THEN t ELSE d]

\* UserRoleRepository.AddRolesToUser on the session's view `tx`: add_all,
\* then the flush and commit; an insert naming a missing user or role fails
\* (IntegrityError, 409) and the session's statements are rolled back.
AddRolesToUser(d, tx, user_id, role_names, commit) ==
    LET t == [tx EXCEPT !.user_role_relation_table =
                 InsertRows(@, {<<user_id, r>> : r \in role_names})]
    IN IF ~UserRoleFKHolds(t)
       THEN [status |-> 409, tx |-> d, db |-> d]
       ELSE [status |-> 200, tx |-> t, db |-> IF commit THEN t ELSE d]

SetUserRolesOnlyAdds(d, user_id, role_names, check_user_exists, check_valid_role_names) ==
    LET role_names_set == Range(role_names)
        t == [d EXCEPT !.user_role_relation_table =
                 InsertRows(@, {<<user_id, r>> : r \in role_names_set})]
    IN IF check_user_exists /\ user_id \notin UserRowIds(d)
       THEN [status |-> 404, db |-> d]
       ELSE IF check_valid_role_names /\ role_names_set \ d.user_role # {}
       THEN [status |-> 400, db |-> d]
       ELSE IF ~UserRoleFKHolds(t)
       THEN [status |-> 409, db |-> d]
       ELSE [status |-> 200, db |-> t]

SetUserRolesCreatesRoles(d, user_id, role_names, check_user_exists, check_valid_role_names) ==
    LET role_names_set == Range(role_names)
        t == [d EXCEPT !.user_role = @ \cup role_names_set,
                       !.user_role_relation_table =
                 InsertRows(RowsWhere(@, {e \in DOMAIN @ : e[1] # user_id}),
                            {<<user_id, r>> : r \in role_names_set})]
    IN IF check_user_exists /\ user_id \notin UserRowIds(d)
       THEN [status |-> 404, db |-> d]
       ELSE IF ~UserRoleFKHolds(t)
       THEN [status |-> 409, db |-> d]
       ELSE [status |-> 200, db |-> t]

\* UserRoleService.SetUserRoles: HTTP status and the store after the request.
SetUserRoles(d, user_id, role_names, check_user_exists, check_valid_role_names) ==
    LET role_names_set == Range(role_names)
        t == [d EXCEPT !.user_role_relation_table =
                 InsertRows(RowsWhere(@, {e \in DOMAIN @ : e[1] # user_id}),
                            {<<user_id, r>> : r \in role_names_set})]
    IN IF check_user_exists /\ user_id \notin UserRowIds(d)
       THEN [status |-> 404, db |-> d]
       ELSE IF check_valid_role_names /\ role_names_set \ d.user_role # {}
       THEN [status |-> 400, db |-> d]
       ELSE IF ~UserRoleFKHolds(t)
       THEN [status |-> 409, db |-> d]
       ELSE [status |-> 200, db |-> t]

CheckUserPermissionAlwaysChecks(d, user_id, permission_name, check_user_exists) ==
    IF user_id \notin UserRowIds(d)
    THEN [status |-> 404, ret |-> FALSE]
    ELSE [status |-> 200, ret |-> CheckPermissionOfUser(d, user_id, permission_name)]

\* UserPermissionService.CheckUserPermission: 404 or the repository's answer.
CheckUserPermission(d, user_id, permission_name, check_user_exists) ==
    IF check_user_exists /\ user_id \notin UserRowIds(d)
    THEN [status |-> 404, ret |-> FALSE]
    ELSE [status |-> 200, ret |-> CheckPermissionOfUser(d, user_id, permission_name)]

(***************************************************************************)
(* Option names and utils.GetQueryDictByPath.  A string is the sequence of *)
(* its characters; a JSON value is a leaf or a dictionary of leaves.       *)
(***************************************************************************)
\* Permissions.OPTIONS_NAME_SEPERATOR = '.'
OPTIONS_NAME_SEPERATOR == <<".">>

\* Permissions.PERMISSION_FILE_PATH = os.path.join('data', 'configs', 'permissions.json')
PERMISSION_FILE_PATH ==
    <<"d", "a", "t", "a", "/", "c", "o", "n", "f", "i", "g", "s",
      "/", "p", "e", "r", "m", "i", "s", "s", "i", "o", "n", "s",
      ".", "j", "s", "o", "n">>

NoItems == [k \in {} |-> ""]

Leaf(v) == [isDict |-> FALSE, value |-> v, items |-> NoItems]

Dict(items) == [isDict |-> TRUE, value |-> "", items |-> items]

\* Permissions.__options_data before Initialize has loaded the options.
OptionsNone == [loaded |-> FALSE, data |-> NoItems]

OptionsLoaded(data) == [loaded |-> TRUE, data |-> data]

\* The positions of s at which sep occurs.
Occurrences(s, sep) ==
    {i \in 1..(Len(s) - Len(sep) + 1) : SubSeq(s, i, i + Len(sep) - 1) = sep}

\* str.split(sep) for a non-empty sep: the pieces between the occurrences
\* of sep, found from the left.
RECURSIVE Split(_, _)
Split(s, sep) ==
    IF Occurrences(s, sep) = {} THEN <<s>>
    ELSE LET i == CHOOSE x \in Occurrences(s, sep) : \A y \in Occurrences(s, sep) : x <= y
         IN <<SubSeq(s, 1, i - 1)>> \o Split(SubSeq(s, i + Len(sep), Len(s)), sep)

Returned(v) == [raised |-> FALSE, value |-> v]

Raised == [raised |-> TRUE, value |-> Leaf("")]

\* The loop of GetQueryDictByPath over `steps`, from the value `curr`.
RECURSIVE Walk(_, _, _)
Walk(curr, steps, default) ==
    IF steps = <<>> THEN Returned(curr)
    ELSE IF ~curr.isDict THEN Raised
    ELSE IF Head(steps) \notin DOMAIN curr.items THEN Returned(default)
    ELSE Walk(curr.items[Head(steps)], Tail(steps), default)

\* utils.GetQueryDictByPath(d, path, path_sep, default)
GetQueryDictByPath(d, path, path_sep, default) ==
    IF path_sep = <<>> THEN Raised
    ELSE Walk(Dict(d), Split(path, path_sep), default)

\* Permissions.GetOptions: the third positional argument of
\* GetQueryDictByPath, path_sep, is given PERMISSION_FILE_PATH.
GetOptions(options_data, option_name, default) ==
    IF ~options_data.loaded THEN Raised
    ELSE GetQueryDictByPath(options_data.data, option_name, PERMISSION_FILE_PATH, default)

(***************************************************************************)
(* Database: the class attributes __engine and SessionFactory (set or      *)
(* None), whether DATABASE_URL is in the environment, and the sessions     *)
(* handed out and not yet closed.                                          *)
(***************************************************************************)
NoDatabase == [engine |-> FALSE, SessionFactory |-> FALSE, url |-> TRUE, open |-> 0]

\* Where Database.Connect may meet an exception: inside the call of
\* create_async_engine (its arguments included), after __engine has been
\* assigned (async_sessionmaker and its Config.GetConfig argument, the event
\* listener), and, after that, also in the handler's own
\* `await Database.__engine.dispose()` ("dispose").
ConnectFaults == {"none", "create_async_engine", "async_sessionmaker", "dispose"}

\* Database.Connect: the value returned (or `raised`) and the attributes.
Connect(s, fault) ==
    IF s.engine
    THEN [ret |-> TRUE, raised |-> FALSE, database |-> s]
    ELSE IF ~s.url
    THEN [ret |-> FALSE, raised |-> FALSE, database |-> s]
    ELSE IF fault = "create_async_engine"
    THEN [ret |-> FALSE, raised |-> FALSE,
          database |-> [s EXCEPT !.engine = FALSE, !.SessionFactory = FALSE]]
    ELSE IF fault = "async_sessionmaker"
    THEN [ret |-> FALSE, raised |-> FALSE,
          database |-> [s EXCEPT !.engine = FALSE, !.SessionFactory = FALSE]]
    ELSE IF fault = "dispose"
    THEN [ret |-> FALSE, raised |-> TRUE, database |-> [s EXCEPT !.engine = TRUE]]
    ELSE [ret |-> TRUE, raised |-> FALSE,
          database |-> [s EXCEPT !.engine = TRUE, !.SessionFactory = TRUE]]

\* Database.Disconnect; `disposeRaises` is the engine's dispose raising.
Disconnect(s, disposeRaises) ==
    IF ~s.engine
    THEN [ret |-> TRUE, database |-> s]
    ELSE [ret |-> ~disposeRaises,
          database |-> [s EXCEPT !.engine = FALSE, !.SessionFactory = FALSE]]

InitializeClosesSessionOnSuccess(ret, faulted) == ret

\* `finally: await session.close()` of Permissions.Initialize: every exit of
\* the try block, by `return` or by exception, closes the session.
InitializeClosesSession(ret, faulted) == TRUE

\* GetDatabaseSession: `async with Database.SessionFactory() as session`
\* closes the session when the request ends, with an HTTP status that is
\* an error (after `await session.rollback()`) or not.
RequestClosesSession(status) == TRUE

\* One more session handed out by the session factory.
SessionOpened(s) == [s EXCEPT !.open = @ + 1]

\* A session that is closed goes back to the pool.
SessionReleased(s, closes) == IF closes THEN [s EXCEPT !.open = @ - 1] ELSE s

\* Database.IsConnected
IsConnected(s) == s.engine

\* Database.GetSession: whether a session is returned (None otherwise).
GetSession(s) == s.SessionFactory

(***************************************************************************)
(* State machine                                                           *)
(***************************************************************************)
MaxTime == 3
MaxIssued == 2
MaxConfiguredExpireTime == 2
MaxUpdates == 2
MaxOpenSessions == 4

NoCall ==
    [op |-> "none", ret |-> FALSE, status |-> 0, writes |-> {},
     user |-> "", perm |-> "", bearer |-> NoToken, token |-> NoToken,
     plain |-> "", digest |-> NoDigest, flag |-> FALSE,
     commits |-> 0, faulted |-> FALSE, time |-> 0, tx |-> EmptyDb, roles |-> <<>>,
     options |-> OptionsNone, path |-> <<>>, default |-> Leaf(""),
     result |-> Returned(Leaf(""))]

RoleLists ==
    {<<>>, <<"admin">>, <<"user">>, <<"admin", "user">>, <<"user", "user">>, <<"ghost">>}

ForgedTokens ==
    {[kind |-> "jwt", sub |-> u, exp |-> MaxTime + MaxConfiguredExpireTime + 1, key |-> "attacker"] :
        u \in UserIds}

GarbageToken == [kind |-> "garbage", sub |-> "", exp |-> 0, key |-> ""]

\* `issued` remembers every token handed out, with its principal and the
\* time of issuance.
Issuance(token, sub, t) == [token |-> token, sub |-> sub, at |-> t]

IssuedTokens == {i.token : i \in issued}

BearerTokens == IssuedTokens \cup ForgedTokens \cup {GarbageToken}

CanIssue(token) == token \in IssuedTokens \/ Cardinality(issued) < MaxIssued

\* The process: how many runs of Permissions.Initialize it has started and
\* finished, and whether its start has failed.
NoLife == [started |-> 0, finished |-> 0, failed |-> FALSE]

\* Requests in flight, each with its own database session.
SessionIds == {"s1", "s2"}

IdleSession ==
    [pc |-> "idle", op |-> "none", user |-> "", roles |-> {}, before |-> {},
     version |-> 0, tx |-> EmptyDb]

NoSessions == [s \in SessionIds |-> IdleSession]

\* Successful UserService.Update calls per user (history).
NoUpdates == [u \in UserIds |-> 0]

InitStore ==
    /\ life = NoLife
    /\ sessions = NoSessions
    /\ updates = NoUpdates
    /\ database = NoDatabase
    /\ db = EmptyDb
    /\ optionsData = NoOptions
    /\ appState = "down"
    /\ catalog = BaseCatalog
    /\ last = NoCall
    /\ now = 0
    /\ issued = {}

Init ==
    /\ InitStore
    /\ secretKey = "k"
    /\ expireTime = 1

InitAuth ==
    /\ InitStore
    /\ secretKey \in SecretKeys
    /\ expireTime \in 0..MaxConfiguredExpireTime

AcceptsRequestsDuringInitialize(state) == state \in {"reconciling", "serving"}

\* The routers answer requests after appLifespan has reached its `yield`.
AcceptsRequests(state) == state = "serving"

LifespanIgnoresResult(ok) == "serving"

\* appLifespan: `if not await onInitialize(): return`, else `yield`.
LifespanAfterInitialize(ok) == IF ok THEN "serving" ELSE "down"

\* The operator replaces data/configs/permissions.json between two runs.
EditCatalog(c) ==
    /\ appState = "down"
    /\ c # catalog
    /\ catalog' = c
    /\ last' = [NoCall EXCEPT !.op = "EditCatalog"]
    /\ UNCHANGED <<db, optionsData, appState, now, secretKey, expireTime, issued, life, sessions, updates, database>>

\* appLifespan -> onInitialize -> Permissions.Initialize on the catalog file.
\* A failed start ends the process, which drops the options it had loaded.
onInitialize(f) ==
    /\ appState = "down"
    /\ LET r == Initialize(db, catalog, f)
       IN /\ db' = r.db
          /\ optionsData' = IF r.ret THEN LoadedOptions(catalog) ELSE NoOptions
          /\ appState' = LifespanAfterInitialize(r.ret)
          /\ database' = IF r.ret THEN Connect(NoDatabase, "none").database ELSE NoDatabase
          /\ last' = [NoCall EXCEPT !.op = "Initialize", !.ret = r.ret, !.writes = r.writes,
                                    !.commits = r.commits, !.faulted = r.faulted]
    /\ UNCHANGED <<catalog, now, secretKey, expireTime, issued, life, sessions, updates>>

\* onDeinitialize, end of the process.
onDeinitialize ==
    /\ appState = "serving"
    /\ \A s \in SessionIds : sessions[s].pc = "idle"
    /\ appState' = "down"
    /\ optionsData' = NoOptions
    /\ database' = Disconnect(database, FALSE).database
    /\ last' = [NoCall EXCEPT !.op = "Deinitialize"]
    /\ UNCHANGED <<db, catalog, now, secretKey, expireTime, issued, life, sessions, updates>>

\* The service is restarted on an unchanged catalog file: onDeinitialize of
\* the running process, then onInitialize of the next one.
Restart(f) ==
    /\ appState = "serving"
    /\ LET r == Initialize(db, catalog, f)
       IN /\ db' = r.db
          /\ optionsData' = IF r.ret THEN LoadedOptions(catalog) ELSE NoOptions
          /\ appState' = LifespanAfterInitialize(r.ret)
          /\ last' = [NoCall EXCEPT !.op = "Initialize", !.ret = r.ret, !.writes = r.writes,
                                    !.commits = r.commits, !.faulted = r.faulted,
                                    !.flag = TRUE]
          /\ database' = IF r.ret THEN Connect(NoDatabase, "none").database ELSE NoDatabase
    /\ UNCHANGED <<catalog, now, secretKey, expireTime, issued, life, sessions, updates>>

\* POST /auth/register
Register(username, password, backendFails, user_id) ==
    /\ AcceptsRequests(appState)
    /\ LET password_hash == HashPassword(password, backendFails)
       IN IF FromUsername(db, username) # {}
          THEN /\ last' = [NoCall EXCEPT !.op = "Register", !.status = 400]
               /\ UNCHANGED <<db, issued>>
          ELSE IF DigestIsFalsy(password_hash)
          THEN /\ last' = [NoCall EXCEPT !.op = "Register", !.status = 500]
               /\ UNCHANGED <<db, issued>>
          ELSE /\ user_id \notin UserRowIds(db)
               /\ LET created == [db EXCEPT !.user = @ \cup
                                     {[id |-> user_id, username |-> username,
                                       passwordHash |-> password_hash,
                                       version |-> InitialVersion]}]
                      r == SetUserRoles(created, user_id, <<GetDefaultRole(optionsData)>>,
                                        FALSE, FALSE)
                      token == GenerateJWT(user_id, secretKey, now, expireTime)
                      call == [NoCall EXCEPT !.op = "Register", !.user = user_id]
                  IN IF r.status # 200
                     THEN /\ db' = r.db
                          /\ last' = [call EXCEPT !.status = r.status]
                          /\ UNCHANGED issued
                     ELSE IF token = NoToken
                     THEN /\ db' = r.db
                          /\ last' = [call EXCEPT !.status = 500]
                          /\ UNCHANGED issued
                     ELSE /\ CanIssue(token)
                          /\ db' = r.db
                          /\ issued' = issued \cup {Issuance(token, user_id, now)}
                          /\ last' = [call EXCEPT !.status = 201, !.token = token]
    /\ UNCHANGED <<optionsData, appState, catalog, now, secretKey, expireTime, life, sessions, updates, database>>

\* POST /user/role/{user_id}
SetUserRolesRoute(bearer, user_id, roles) ==
    /\ AcceptsRequests(appState)
    /\ LET cur == GetCurrentUserID(bearer, secretKey, now)
           allowed == CheckUserPermission(db, cur.user_id, "user.set_permission", FALSE)
           r == SetUserRoles(db, user_id, roles, TRUE, TRUE)
           call == [NoCall EXCEPT !.op = "SetUserRoles", !.bearer = bearer, !.user = user_id,
                                  !.roles = roles]
       IN IF cur.status # 200
          THEN /\ last' = [call EXCEPT !.status = 401]
               /\ UNCHANGED db
          ELSE IF ~allowed.ret
          THEN /\ last' = [call EXCEPT !.status = 403]
               /\ UNCHANGED db
          ELSE /\ last' = [call EXCEPT !.status = r.status]
               /\ db' = r.db
    /\ UNCHANGED <<optionsData, appState, catalog, now, secretKey, expireTime, issued, life, sessions, updates, database>>

\* DELETE /user/{user_id} (depends on GetCurrentUser and GetCurrentUserID)
DeleteUserRoute(bearer, user_id) ==
    /\ AcceptsRequests(appState)
    /\ LET cur == GetCurrentUser(db, bearer, secretKey, now)
           allowed == CheckUserPermission(db, cur.user_id, "user.delete", FALSE)
           r == UserDelete(db, user_id, TRUE)
           call == [NoCall EXCEPT !.op = "DeleteUser", !.bearer = bearer, !.user = user_id,
                                  !.time = now]
       IN IF cur.status # 200
          THEN /\ last' = [call EXCEPT !.status = 401]
               /\ UNCHANGED db
          ELSE IF cur.user_id # user_id /\ ~allowed.ret
          THEN /\ last' = [call EXCEPT !.status = 403]
               /\ UNCHANGED db
          ELSE IF GetRolesOfUser(db, user_id) \cap NotDeletableRoles(optionsData) # {}
          THEN /\ last' = [call EXCEPT !.status = 400]
               /\ UNCHANGED db
          ELSE /\ last' = [call EXCEPT !.status = r.status, !.tx = r.tx]
               /\ db' = r.db
    /\ UNCHANGED <<optionsData, appState, catalog, now, secretKey, expireTime, issued,
                   life, sessions, updates, database>>

\* POST /user/ (needs 'user.create').  Whether the returned User passes the
\* response model is decided outside the code at hand: `serialises`.
CreateUserRoute(bearer, username, password, roles, user_id, serialises) ==
    /\ AcceptsRequests(appState)
    /\ LET cur == GetCurrentUserID(bearer, secretKey, now)
           allowed == CheckUserPermission(db, cur.user_id, "user.create", FALSE)
           c == UserCreate(db, username, password, FALSE, user_id)
           role_names == IF roles = <<>> THEN <<GetDefaultRole(optionsData)>> ELSE roles
           r == SetUserRoles(c.db, user_id, role_names, FALSE, TRUE)
           call == [NoCall EXCEPT !.op = "CreateUser", !.bearer = bearer, !.user = user_id,
                                  !.time = now]
       IN IF cur.status # 200
          THEN /\ last' = [call EXCEPT !.status = 401]
               /\ UNCHANGED db
          ELSE IF ~allowed.ret
          THEN /\ last' = [call EXCEPT !.status = 403]
               /\ UNCHANGED db
          ELSE IF c.status # 200
          THEN /\ last' = [call EXCEPT !.status = c.status]
               /\ UNCHANGED db
          ELSE /\ user_id \notin UserRowIds(db)
               /\ db' = r.db
               /\ last' = [call EXCEPT !.status = IF r.status # 200 THEN r.status
                                                  ELSE IF serialises THEN 201 ELSE 500]
    /\ UNCHANGED <<optionsData, appState, catalog, now, secretKey, expireTime, issued,
                   life, sessions, updates, database>>

\* PUT /user/{user_id} (needs 'user.update' for another user's account), as
\* one step: the request runs without another one in between.
UpdateUserRoute(bearer, user_id, username, password) ==
    /\ AcceptsRequests(appState)
    /\ updates[user_id] < MaxUpdates
    /\ LET cur == GetCurrentUserID(bearer, secretKey, now)
           allowed == CheckUserPermission(db, cur.user_id, "user.update", FALSE)
           found == FromID(db, user_id)
           call == [NoCall EXCEPT !.op = "UpdateUser", !.bearer = bearer, !.user = user_id,
                                  !.time = now]
       IN IF cur.status # 200
          THEN /\ last' = [call EXCEPT !.status = 401]
               /\ UNCHANGED <<db, updates>>
          ELSE IF cur.user_id # user_id /\ ~allowed.ret
          THEN /\ last' = [call EXCEPT !.status = 403]
               /\ UNCHANGED <<db, updates>>
          ELSE IF found = {}
          THEN /\ last' = [call EXCEPT !.status = 404]
               /\ UNCHANGED <<db, updates>>
          ELSE LET r == UserUpdate(db, CHOOSE u \in found : TRUE, username, password, FALSE)
               IN /\ last' = [call EXCEPT !.status = r.status]
                  /\ db' = r.db
                  /\ updates' = IF r.status = 200
                                THEN [updates EXCEPT ![user_id] = @ + 1] ELSE updates
    /\ UNCHANGED <<optionsData, appState, catalog, now, secretKey, expireTime, issued,
                   life, sessions, database>>

\* UserPermissionService.CheckUserPermission as the routes and tools call it.
CheckUserPermissionCall(user_id, permission_name, check_user_exists) ==
    /\ AcceptsRequests(appState)
    /\ LET r == CheckUserPermission(db, user_id, permission_name, check_user_exists)
       IN last' = [NoCall EXCEPT !.op = "CheckUserPermission", !.status = r.status,
                                 !.ret = r.ret, !.user = user_id, !.perm = permission_name,
                                 !.flag = check_user_exists]
    /\ UNCHANGED <<db, optionsData, appState, catalog, now, secretKey, expireTime, issued, life, sessions, updates, database>>

\* POST /auth/login
Login(username, password, backendFails) ==
    /\ AcceptsRequests(appState)
    /\ LET found == FromUsername(db, username)
           call == [NoCall EXCEPT !.op = "Login", !.user = username, !.plain = password,
                                  !.flag = backendFails]
       IN IF found = {}
          THEN /\ last' = [call EXCEPT !.status = 404]
               /\ UNCHANGED issued
          ELSE LET user == CHOOSE u \in found : TRUE
                   token == GenerateJWT(user.id, secretKey, now, expireTime)
               IN IF ~VerifyPassword(password, user.passwordHash, backendFails)
                  THEN /\ last' = [call EXCEPT !.status = 401]
                       /\ UNCHANGED issued
                  ELSE IF token = NoToken
                  THEN /\ last' = [call EXCEPT !.status = 500]
                       /\ UNCHANGED issued
                  ELSE /\ CanIssue(token)
                       /\ issued' = issued \cup {Issuance(token, user.id, now)}
                       /\ last' = [call EXCEPT !.status = 200, !.token = token]
    /\ UNCHANGED <<db, optionsData, appState, catalog, now, secretKey, expireTime, life, sessions, updates, database>>

\* GET /auth/current (depends on GetCurrentUser)
CurrentUserRoute(bearer) ==
    /\ AcceptsRequests(appState)
    /\ LET cur == GetCurrentUser(db, bearer, secretKey, now)
       IN last' = [NoCall EXCEPT !.op = "CurrentUser", !.bearer = bearer, !.time = now,
                                 !.status = cur.status, !.user = cur.user_id]
    /\ UNCHANGED <<db, optionsData, appState, catalog, now, secretKey, expireTime, issued, life, sessions, updates, database>>

\* GET /user/ (depends on GetCurrentUserID, needs 'user.list')
ListUsersRoute(bearer) ==
    /\ AcceptsRequests(appState)
    /\ LET cur == GetCurrentUserID(bearer, secretKey, now)
           allowed == CheckUserPermission(db, cur.user_id, "user.list", FALSE)
           call == [NoCall EXCEPT !.op = "ListUsers", !.bearer = bearer, !.time = now,
                                  !.user = cur.user_id]
       IN last' = IF cur.status # 200 THEN [call EXCEPT !.status = 401]
                  ELSE IF ~allowed.ret THEN [call EXCEPT !.status = 403]
                  ELSE [call EXCEPT !.status = 200]
    /\ UNCHANGED <<db, optionsData, appState, catalog, now, secretKey, expireTime, issued, life, sessions, updates, database>>

VerifyJWTCallChecksRoles(bearer) ==
    /\ LET payload == VerifyJWT(bearer, secretKey, now)
           known == GetRolesOfUser(db, payload.sub) # {}
       IN last' = [NoCall EXCEPT !.op = "VerifyJWT", !.bearer = bearer, !.time = now,
                                 !.ret = payload.ok /\ known,
                                 !.user = IF known THEN payload.sub ELSE ""]
    /\ UNCHANGED <<db, optionsData, appState, catalog, now, secretKey, expireTime, issued, life, sessions, updates, database>>

\* AuthTools.VerifyJWT on a presented token.
VerifyJWTCall(bearer) ==
    /\ LET payload == VerifyJWT(bearer, secretKey, now)
       IN last' = [NoCall EXCEPT !.op = "VerifyJWT", !.bearer = bearer, !.time = now,
                                 !.ret = payload.ok, !.user = payload.sub]
    /\ UNCHANGED <<db, optionsData, appState, catalog, now, secretKey, expireTime, issued, life, sessions, updates, database>>

\* Permissions.GetOptions(option_name, default) in a process whose
\* __options_data is `options_data`.
GetOptionsCall(options_data, option_name, default) ==
    /\ options_data.loaded = optionsData.loaded
    /\ last' = [NoCall EXCEPT !.op = "GetOptions", !.options = options_data,
                              !.path = option_name, !.default = default,
                              !.result = GetOptions(options_data, option_name, default)]
    /\ UNCHANGED <<db, optionsData, appState, catalog, now, secretKey, expireTime, issued, life, sessions, updates, database>>

\* PasswordTools.HashPassword / VerifyPassword on given arguments.
HashPasswordCall(plain, backendFails) ==
    /\ last' = [NoCall EXCEPT !.op = "HashPassword", !.plain = plain, !.flag = backendFails,
                              !.digest = HashPassword(plain, backendFails)]
    /\ UNCHANGED <<db, optionsData, appState, catalog, now, secretKey, expireTime, issued, life, sessions, updates, database>>

VerifyPasswordCall(plain, digest, backendFails) ==
    /\ last' = [NoCall EXCEPT !.op = "VerifyPassword", !.plain = plain, !.digest = digest,
                              !.flag = backendFails,
                              !.ret = VerifyPassword(plain, digest, backendFails)]
    /\ UNCHANGED <<db, optionsData, appState, catalog, now, secretKey, expireTime, issued, life, sessions, updates, database>>

\* The clock advances.
Tick ==
    /\ now < MaxTime
    /\ now' = now + 1
    /\ UNCHANGED <<db, optionsData, appState, catalog, last, secretKey, expireTime, issued, life, sessions, updates, database>>

\* JWT_SECRET_KEY is put into the environment before the next start.
ConfigureSecret ==
    /\ appState = "down"
    /\ secretKey = NoSecret
    /\ secretKey' = "k"
    /\ UNCHANGED <<db, optionsData, appState, catalog, last, now, expireTime, issued, life, sessions, updates, database>>

EditCatalogAny == \E c \in Catalogs : EditCatalog(c)

StartupAny == \E f \in FaultPoints : onInitialize(f)

RestartAny == \E f \in FaultPoints : Restart(f)

RegisterOne == Register("alice", "Passw0rdA", FALSE, "id1")

SetUserRolesOne ==
    \E bearer \in IssuedTokens, roles \in RoleLists :
        SetUserRolesRoute(bearer, "id1", roles)

DeleteUserOne ==
    \E bearer \in IssuedTokens, user_id \in UserIds : DeleteUserRoute(bearer, user_id)

CheckUserPermissionAny ==
    \E user_id \in UserIds, permission_name \in PermNames, check_user_exists \in BOOLEAN :
        CheckUserPermissionCall(user_id, permission_name, check_user_exists)

Next ==
    \/ EditCatalogAny
    \/ StartupAny
    \/ onDeinitialize
    \/ RestartAny
    \/ RegisterOne
    \/ SetUserRolesOne
    \/ CheckUserPermissionAny
    \/ DeleteUserOne

Spec == Init /\ [][Next]_vars

(***************************************************************************)
(* The authentication routes on the base catalog, with a clock.            *)
(***************************************************************************)
MalformedDigest == [scheme |-> "garbage", of |-> "Passw0rdA"]

DigestInputs ==
    {NoDigest, EmptyDigest, MalformedDigest} \cup {BcryptDigest(pw) : pw \in Passwords}

StartupBase == onInitialize(NoFault)

RegisterAuth ==
    \E backendFails \in BOOLEAN :
        \/ Register("alice", "Passw0rdA", backendFails, "id1")
        \/ Register("bob", "Passw0rdB", backendFails, "id2")

LoginAny ==
    \E username \in Usernames, password \in Passwords, backendFails \in BOOLEAN :
        Login(username, password, backendFails)

CurrentUserAny == \E bearer \in BearerTokens : CurrentUserRoute(bearer)

ListUsersAny == \E bearer \in BearerTokens : ListUsersRoute(bearer)

VerifyJWTAny == \E bearer \in BearerTokens : VerifyJWTCall(bearer)

HashPasswordAny ==
    \E plain \in Passwords \cup {""}, backendFails \in BOOLEAN :
        HashPasswordCall(plain, backendFails)

VerifyPasswordAny ==
    \E plain \in Passwords \cup {""}, digest \in DigestInputs, backendFails \in BOOLEAN :
        VerifyPasswordCall(plain, digest, backendFails)

NextAuth ==
    \/ StartupBase
    \/ onDeinitialize
    \/ ConfigureSecret
    \/ Tick
    \/ RegisterAuth
    \/ LoginAny
    \/ CurrentUserAny
    \/ ListUsersAny
    \/ VerifyJWTAny
    \/ HashPasswordAny
    \/ VerifyPasswordAny

SpecAuth == InitAuth /\ [][NextAuth]_vars

(***************************************************************************)
(* The permission-guarded user routes, on a catalog that declares every    *)
(* permission the routes ask for and makes "admin" the default role.       *)
(***************************************************************************)
RoutePermNames ==
    <<"user.list", "user.create", "user.update", "user.delete", "user.set_permission">>

RoutesCatalog ==
    [parses |-> TRUE,
     permissionsIsList |-> TRUE, permissions |-> RoutePermNames,
     rolesIsDict |-> TRUE,
     roles |-> [r \in RoleNames |->
                  [present |-> TRUE, isList |-> TRUE,
                   items |-> IF r = "admin" THEN RoutePermNames ELSE <<"user.list">>]],
     optionsIsDict |-> TRUE,
     options |-> [has_default_role |-> TRUE, default_role |-> "admin"]]

InitRoutes ==
    /\ life = NoLife
    /\ sessions = NoSessions
    /\ updates = NoUpdates
    /\ database = NoDatabase
    /\ db = EmptyDb
    /\ optionsData = NoOptions
    /\ appState = "down"
    /\ catalog = RoutesCatalog
    /\ last = NoCall
    /\ now = 0
    /\ issued = {}
    /\ secretKey = "k"
    /\ expireTime = 1

LoginRoutes ==
    \E username \in Usernames, password \in Passwords : Login(username, password, FALSE)

CreateUserAny ==
    \E bearer \in BearerTokens, roles \in {<<>>, <<"user">>, <<"ghost">>},
       serialises \in BOOLEAN :
        CreateUserRoute(bearer, "bob", "Passw0rdB", roles, "id2", serialises)

UpdateUserAny ==
    \E bearer \in BearerTokens, user_id \in UserIds,
       change \in {<<"", "Passw0rdB">>, <<"bob", "">>} :
        UpdateUserRoute(bearer, user_id, change[1], change[2])

DeleteUserAny ==
    \E bearer \in BearerTokens, user_id \in UserIds : DeleteUserRoute(bearer, user_id)

SetUserRolesAny ==
    \E bearer \in BearerTokens, user_id \in UserIds,
       roles \in {<<>>, <<"user">>, <<"admin", "user">>, <<"ghost">>} :
        SetUserRolesRoute(bearer, user_id, roles)

NextRoutes ==
    \/ StartupBase
    \/ RegisterOne
    \/ LoginRoutes
    \/ ListUsersAny
    \/ CreateUserAny
    \/ UpdateUserAny
    \/ DeleteUserAny
    \/ SetUserRolesAny

SpecRoutes == InitRoutes /\ [][NextRoutes]_vars

(***************************************************************************)
(* Requests that overlap: a request is split where its handler awaits the   *)
(* store between two statements, and another request may run in between.    *)
(***************************************************************************)
\* SQLite admits one write transaction at a time: a session that has
\* executed a statement that writes holds the lock until it commits or is
\* closed, and the other writers wait.
WriterInFlight == \E s \in SessionIds : sessions[s].pc = "deleted"

\* POST /user/role/{user_id} up to and including DeleteAllRolesFromUser.
SetUserRolesDelete(s, bearer, user_id, roles) ==
    /\ AcceptsRequests(appState)
    /\ sessions[s].pc = "idle"
    /\ ~WriterInFlight
    /\ LET cur == GetCurrentUserID(bearer, secretKey, now)
           allowed == CheckUserPermission(db, cur.user_id, "user.set_permission", FALSE)
           role_names_set == Range(roles)
           del == DeleteAllRolesFromUser(db, user_id, FALSE)
           call == [NoCall EXCEPT !.op = "SetUserRolesDelete", !.bearer = bearer,
                                  !.user = user_id]
       IN IF cur.status # 200
          THEN /\ last' = [call EXCEPT !.status = 401]
               /\ UNCHANGED <<db, sessions>>
          ELSE IF ~allowed.ret
          THEN /\ last' = [call EXCEPT !.status = 403]
               /\ UNCHANGED <<db, sessions>>
          ELSE IF user_id \notin UserRowIds(db)
          THEN /\ last' = [call EXCEPT !.status = 404]
               /\ UNCHANGED <<db, sessions>>
          ELSE IF role_names_set \ db.user_role # {}
          THEN /\ last' = [call EXCEPT !.status = 400]
               /\ UNCHANGED <<db, sessions>>
          ELSE /\ last' = call
               /\ db' = del.db
               /\ sessions' = [sessions EXCEPT ![s] =
                     [IdleSession EXCEPT !.pc = "deleted", !.op = "SetUserRoles",
                                         !.user = user_id, !.roles = role_names_set,
                                         !.before = GetRolesOfUser(db, user_id),
                                         !.tx = del.tx]]
    /\ database' = IF last'.status = 0
                   THEN SessionOpened(database)
                   ELSE SessionReleased(SessionOpened(database),
                                        RequestClosesSession(last'.status))
    /\ UNCHANGED <<optionsData, appState, catalog, now, secretKey, expireTime, issued,
                   life, updates>>

\* The rest of POST /user/role/{user_id}: AddRolesToUser with commit=True.
SetUserRolesAdd(s) ==
    /\ sessions[s].pc = "deleted"
    /\ LET r == AddRolesToUser(db, sessions[s].tx, sessions[s].user, sessions[s].roles, TRUE)
       IN /\ db' = r.db
          /\ last' = [NoCall EXCEPT !.op = "SetUserRolesAdd", !.status = r.status,
                                    !.user = sessions[s].user]
    /\ sessions' = [sessions EXCEPT ![s] = IdleSession]
    /\ database' = SessionReleased(database, RequestClosesSession(last'.status))
    /\ UNCHANGED <<optionsData, appState, catalog, now, secretKey, expireTime, issued,
                   life, updates>>

\* PUT /user/{user_id} up to and including UserService.FromID.
UpdateUserLoad(s, bearer, user_id) ==
    /\ AcceptsRequests(appState)
    /\ sessions[s].pc = "idle"
    /\ LET cur == GetCurrentUserID(bearer, secretKey, now)
           allowed == CheckUserPermission(db, cur.user_id, "user.update", FALSE)
           found == FromID(db, user_id)
           call == [NoCall EXCEPT !.op = "UpdateUserLoad", !.bearer = bearer,
                                  !.user = user_id]
       IN IF cur.status # 200
          THEN /\ last' = [call EXCEPT !.status = 401]
               /\ UNCHANGED sessions
          ELSE IF cur.user_id # user_id /\ ~allowed.ret
          THEN /\ last' = [call EXCEPT !.status = 403]
               /\ UNCHANGED sessions
          ELSE IF found = {}
          THEN /\ last' = [call EXCEPT !.status = 404]
               /\ UNCHANGED sessions
          ELSE /\ last' = call
               /\ sessions' = [sessions EXCEPT ![s] =
                     [IdleSession EXCEPT !.pc = "loaded", !.op = "UpdateUser",
                                         !.user = user_id,
                                         !.version = (CHOOSE u \in found : TRUE).version]]
    /\ database' = IF last'.status = 0
                   THEN SessionOpened(database)
                   ELSE SessionReleased(SessionOpened(database),
                                        RequestClosesSession(last'.status))
    /\ UNCHANGED <<db, optionsData, appState, catalog, now, secretKey, expireTime, issued,
                   life, updates>>

\* The rest of PUT /user/{user_id}: UserService.Update of the loaded user.
UpdateUserCommit(s, username, password) ==
    /\ sessions[s].pc = "loaded"
    /\ ~WriterInFlight
    /\ updates[sessions[s].user] < MaxUpdates
    /\ LET user == [id |-> sessions[s].user, version |-> sessions[s].version]
           r == UserUpdate(db, user, username, password, FALSE)
       IN /\ db' = r.db
          /\ updates' = IF r.status = 200
                        THEN [updates EXCEPT ![user.id] = @ + 1] ELSE updates
          /\ last' = [NoCall EXCEPT !.op = "UpdateUserCommit", !.status = r.status,
                                    !.user = user.id]
    /\ sessions' = [sessions EXCEPT ![s] = IdleSession]
    /\ database' = SessionReleased(database, RequestClosesSession(last'.status))
    /\ UNCHANGED <<optionsData, appState, catalog, now, secretKey, expireTime, issued, life>>

RegisterOverlap == ~WriterInFlight /\ RegisterOne

SetUserRolesDeleteAny ==
    \E s \in SessionIds, bearer \in IssuedTokens,
       roles \in {<<>>, <<"user">>, <<"admin">>, <<"admin", "user">>} :
        SetUserRolesDelete(s, bearer, "id1", roles)

SetUserRolesAddAny == \E s \in SessionIds : SetUserRolesAdd(s)

UpdateUserLoadAny ==
    \E s \in SessionIds, bearer \in IssuedTokens : UpdateUserLoad(s, bearer, "id1")

UpdateUserCommitAny ==
    \E s \in SessionIds, change \in {<<"", "Passw0rdB">>, <<"bob", "">>} :
        UpdateUserCommit(s, change[1], change[2])

CheckOverlapAny ==
    \E user_id \in UserIds, permission_name \in {"user.list", "user.create"} :
        CheckUserPermissionCall(user_id, permission_name, FALSE)

NextOverlap ==
    \/ StartupBase
    \/ RegisterOverlap
    \/ SetUserRolesDeleteAny
    \/ SetUserRolesAddAny
    \/ UpdateUserLoadAny
    \/ UpdateUserCommitAny
    \/ CheckOverlapAny

SpecOverlap == InitRoutes /\ [][NextOverlap]_vars

(***************************************************************************)
(* Tokens against a store that changes: roles are replaced and users are   *)
(* deleted while the clock advances and issued tokens are verified.        *)
(***************************************************************************)
NextTokens ==
    \/ StartupBase
    \/ RegisterOne
    \/ LoginRoutes
    \/ Tick
    \/ SetUserRolesAny
    \/ DeleteUserAny
    \/ VerifyJWTAny

SpecTokens == InitRoutes /\ [][NextTokens]_vars

(***************************************************************************)

(* The start of the process step by step: appLifespan enters onInitialize, *)
(* which connects to the store and then runs Permissions.Initialize.       *)
(***************************************************************************)
\* appLifespan is entered by a new process; onInitialize up to and
\* including Database.CreateTables (each `return False` ends the start).
LifespanEnter(ok) ==
    /\ appState = "down"
    /\ appState' = IF ok THEN "starting" ELSE "down"
    /\ life' = [NoLife EXCEPT !.failed = ~ok]
    /\ database' = IF ok THEN Connect(NoDatabase, "none").database ELSE NoDatabase
    /\ last' = [NoCall EXCEPT !.op = "LifespanEnter", !.ret = ok]
    /\ UNCHANGED <<db, optionsData, catalog, now, secretKey, expireTime, issued,
                   sessions, updates>>

\* onInitialize calls Permissions.Initialize, which takes its session from
\* Database.GetSession.
InitializeBegin ==
    /\ appState = "starting"
    /\ GetSession(database)
    /\ appState' = "reconciling"
    /\ life' = [life EXCEPT !.started = @ + 1]
    /\ database' = SessionOpened(database)
    /\ last' = [NoCall EXCEPT !.op = "InitializeBegin"]
    /\ UNCHANGED <<db, optionsData, catalog, now, secretKey, expireTime, issued,
                   sessions, updates>>

\* Permissions.Initialize returns and appLifespan yields or returns.
InitializeEnd(f) ==
    /\ appState = "reconciling"
    /\ LET r == Initialize(db, catalog, f)
       IN /\ db' = r.db
          /\ optionsData' = IF r.ret THEN LoadedOptions(catalog) ELSE NoOptions
          /\ appState' = LifespanAfterInitialize(r.ret)
          /\ life' = [life EXCEPT !.finished = @ + 1, !.failed = ~r.ret]
          /\ database' = SessionReleased(database, InitializeClosesSession(r.ret, r.faulted))
          /\ last' = [NoCall EXCEPT !.op = "Initialize", !.ret = r.ret, !.writes = r.writes,
                                    !.commits = r.commits, !.faulted = r.faulted]
    /\ UNCHANGED <<catalog, now, secretKey, expireTime, issued, sessions, updates>>

LifespanEnterAny == \E ok \in BOOLEAN : LifespanEnter(ok)

InitializeEndAny == \E f \in FaultPoints : InitializeEnd(f)

NextLifespan ==
    \/ EditCatalogAny
    \/ LifespanEnterAny
    \/ InitializeBegin
    \/ InitializeEndAny
    \/ onDeinitialize
    \/ RegisterOne
    \/ SetUserRolesOne
    \/ CheckUserPermissionAny

SpecLifespan == Init /\ [][NextLifespan]_vars

(***************************************************************************)
(* Sessions held open: the start of the application in steps, on any       *)
(* catalog and with any store fault, next to requests in flight.           *)
(***************************************************************************)
SessionCatalogs == {RoutesCatalog, [RoutesCatalog EXCEPT !.parses = FALSE]}

EditCatalogSessions == \E c \in SessionCatalogs : EditCatalog(c)

NextSessions ==
    \/ EditCatalogSessions
    \/ LifespanEnterAny
    \/ InitializeBegin
    \/ InitializeEndAny
    \/ onDeinitialize
    \/ RegisterOverlap
    \/ SetUserRolesDeleteAny
    \/ SetUserRolesAddAny
    \/ UpdateUserLoadAny
    \/ UpdateUserCommitAny

SpecSessions == InitRoutes /\ [][NextSessions]_vars

(***************************************************************************)
(* Two POST /user/role/{user_id} requests in flight for the same user.     *)
(* Each request runs on its own connection.  The checks of the route only  *)
(* read.  The DELETE statement starts the write transaction of the         *)
(* connection; SQLite admits one write transaction at a time, so the       *)
(* statement of a second connection waits for the commit of the first or   *)
(* fails with "database is locked" when the busy timeout runs out.         *)
(***************************************************************************)
\* POST /user/role/{user_id} up to the `try` of UserRoleService.SetUserRoles.
SetUserRolesChecks(s, bearer, user_id, roles) ==
    /\ AcceptsRequests(appState)
    /\ sessions[s].pc = "idle"
    /\ LET cur == GetCurrentUserID(bearer, secretKey, now)
           allowed == CheckUserPermission(db, cur.user_id, "user.set_permission", FALSE)
           role_names_set == Range(roles)
           code == IF cur.status # 200 THEN 401
                   ELSE IF ~allowed.ret THEN 403
                   ELSE IF user_id \notin UserRowIds(db) THEN 404
                   ELSE IF role_names_set \ db.user_role # {} THEN 400
                   ELSE 0
       IN /\ last' = [NoCall EXCEPT !.op = "SetUserRolesChecks", !.bearer = bearer,
                                    !.user = user_id, !.status = code]
          /\ sessions' = [sessions EXCEPT ![s] =
                [IdleSession EXCEPT !.pc = IF code = 0 THEN "checked" ELSE "failed",
                                    !.op = "SetUserRoles", !.user = user_id,
                                    !.roles = role_names_set]]
          /\ database' = IF code = 0
                         THEN SessionOpened(database)
                         ELSE SessionReleased(SessionOpened(database),
                                              RequestClosesSession(code))
    /\ UNCHANGED <<db, optionsData, appState, catalog, now, secretKey, expireTime, issued,
                   life, updates>>

\* DeleteAllRolesFromUser(session, user_id, commit=False) once no other
\* connection holds the write transaction.
SetUserRolesStatement(s) ==
    /\ sessions[s].pc = "checked"
    /\ ~WriterInFlight
    /\ LET del == DeleteAllRolesFromUser(db, sessions[s].user, FALSE)
       IN /\ db' = del.db
          /\ sessions' = [sessions EXCEPT ![s] =
                [@ EXCEPT !.pc = "deleted", !.tx = del.tx,
                          !.before = GetRolesOfUser(db, sessions[s].user)]]
    /\ last' = [NoCall EXCEPT !.op = "SetUserRolesStatement", !.user = sessions[s].user]
    /\ UNCHANGED <<optionsData, appState, catalog, now, secretKey, expireTime, issued,
                   life, updates, database>>

\* The DELETE statement gives up waiting for the write transaction of the
\* other connection: OperationalError, `except Exception` answers 500.
SetUserRolesLocked(s) ==
    /\ sessions[s].pc = "checked"
    /\ WriterInFlight
    /\ sessions' = [sessions EXCEPT ![s] = [@ EXCEPT !.pc = "failed"]]
    /\ last' = [NoCall EXCEPT !.op = "SetUserRolesLocked", !.user = sessions[s].user,
                              !.status = 500]
    /\ database' = SessionReleased(database, RequestClosesSession(500))
    /\ UNCHANGED <<db, optionsData, appState, catalog, now, secretKey, expireTime, issued,
                   life, updates>>

\* AddRolesToUser(session, user_id, role_names_set, commit=True) and the
\* end of the request.
SetUserRolesCommit(s) ==
    /\ sessions[s].pc = "deleted"
    /\ LET r == AddRolesToUser(db, sessions[s].tx, sessions[s].user, sessions[s].roles, TRUE)
       IN /\ db' = r.db
          /\ sessions' = [sessions EXCEPT ![s] =
                [@ EXCEPT !.pc = IF r.status = 200 THEN "done" ELSE "failed",
                          !.tx = EmptyDb]]
          /\ last' = [NoCall EXCEPT !.op = "SetUserRolesCommit", !.status = r.status,
                                    !.user = sessions[s].user]
          /\ database' = SessionReleased(database, RequestClosesSession(r.status))
    /\ UNCHANGED <<optionsData, appState, catalog, now, secretKey, expireTime, issued,
                   life, updates>>

\* The two responses have been sent; the next pair of requests may come.
ResponsesSent ==
    /\ \A s \in SessionIds : sessions[s].pc \in {"done", "failed"}
    /\ sessions' = NoSessions
    /\ last' = [NoCall EXCEPT !.op = "ResponsesSent"]
    /\ UNCHANGED <<db, optionsData, appState, catalog, now, secretKey, expireTime, issued,
                   life, updates, database>>

SetUserRolesChecksAny ==
    \E s \in SessionIds, bearer \in IssuedTokens,
       roles \in {<<>>, <<"user">>, <<"admin">>, <<"admin", "user">>, <<"user", "user">>} :
        SetUserRolesChecks(s, bearer, "id1", roles)

SetUserRolesStatementAny == \E s \in SessionIds : SetUserRolesStatement(s)

SetUserRolesLockedAny == \E s \in SessionIds : SetUserRolesLocked(s)

SetUserRolesCommitAny == \E s \in SessionIds : SetUserRolesCommit(s)

NextRoleWriters ==
    \/ StartupBase
    \/ RegisterOverlap
    \/ SetUserRolesChecksAny
    \/ SetUserRolesStatementAny
    \/ SetUserRolesLockedAny
    \/ SetUserRolesCommitAny
    \/ ResponsesSent

SpecRoleWriters == InitRoutes /\ [][NextRoleWriters]_vars

(***************************************************************************)
(* DELETE /user/{user_id} in two steps, its role check and its delete,     *)
(* next to POST /user/role/{user_id} requests that commit in between.      *)
(***************************************************************************)
\* DELETE /user/{user_id} up to and including the not_deletable_role check.
DeleteUserCheck(s, bearer, user_id) ==
    /\ AcceptsRequests(appState)
    /\ sessions[s].pc = "idle"
    /\ LET cur == GetCurrentUser(db, bearer, secretKey, now)
           allowed == CheckUserPermission(db, cur.user_id, "user.delete", FALSE)
           code == IF cur.status # 200 THEN 401
                   ELSE IF cur.user_id # user_id /\ ~allowed.ret THEN 403
                   ELSE IF GetRolesOfUser(db, user_id) \cap NotDeletableRoles(optionsData) # {}
                   THEN 400
                   ELSE 0
       IN /\ last' = [NoCall EXCEPT !.op = "DeleteUserCheck", !.bearer = bearer,
                                    !.user = user_id, !.status = code, !.time = now]
          /\ sessions' = IF code = 0
                         THEN [sessions EXCEPT ![s] =
                                 [IdleSession EXCEPT !.pc = "roleChecked", !.op = "DeleteUser",
                                                     !.user = user_id,
                                                     !.before = GetRolesOfUser(db, user_id)]]
                         ELSE sessions
          /\ database' = IF code = 0
                         THEN SessionOpened(database)
                         ELSE SessionReleased(SessionOpened(database),
                                              RequestClosesSession(code))
    /\ UNCHANGED <<db, optionsData, appState, catalog, now, secretKey, expireTime, issued,
                   life, updates>>

\* The rest of DELETE /user/{user_id}: UserService.Delete and the response.
DeleteUserExecute(s) ==
    /\ sessions[s].pc = "roleChecked"
    /\ LET r == UserDelete(db, sessions[s].user, TRUE)
       IN /\ db' = r.db
          /\ last' = [NoCall EXCEPT !.op = "DeleteUserExecute", !.user = sessions[s].user,
                                    !.status = r.status, !.tx = r.tx, !.time = now]
          /\ database' = SessionReleased(database, RequestClosesSession(r.status))
    /\ sessions' = [sessions EXCEPT ![s] = IdleSession]
    /\ UNCHANGED <<optionsData, appState, catalog, now, secretKey, expireTime, issued,
                   life, updates>>

RegisterBoth ==
    \/ Register("alice", "Passw0rdA", FALSE, "id1")
    \/ Register("bob", "Passw0rdB", FALSE, "id2")

SetUserRolesGrant ==
    \E bearer \in IssuedTokens, roles \in {<<>>, <<"user">>, <<"admin">>} :
        SetUserRolesRoute(bearer, "id1", roles)

DeleteUserCheckAny ==
    \E s \in SessionIds, bearer \in IssuedTokens, user_id \in UserIds :
        DeleteUserCheck(s, bearer, user_id)

DeleteUserExecuteAny == \E s \in SessionIds : DeleteUserExecute(s)

NextDeleteRace ==
    \/ StartupBase
    \/ RegisterBoth
    \/ SetUserRolesGrant
    \/ DeleteUserCheckAny
    \/ DeleteUserExecuteAny

SpecDeleteRace == InitRoutes /\ [][NextDeleteRace]_vars

(***************************************************************************)
(* Permissions.GetOptions on the options a catalog may carry.              *)
(***************************************************************************)
OptionDicts ==
    {NoItems,
     <<"k">> :> Leaf("v1"),
     <<"a">> :> Leaf("v1"),
     <<"a">> :> Dict(<<"b">> :> Leaf("v2")),
     <<"a">> :> Dict(<<"k">> :> Leaf("v1")),
     (<<"a">> :> Dict(<<"b">> :> Leaf("v2"))) @@ (<<"k">> :> Leaf("v1")),
     <<"a", ".", "b">> :> Leaf("v3"),
     (<<"a">> :> Dict(<<"b">> :> Leaf("v2"))) @@ (<<"a", ".", "b">> :> Leaf("v3"))}

OptionNames ==
    {<<"k">>, <<"a">>, <<"b">>, <<"a", ".", "b">>, <<"a", ".", "k">>, <<"k", ".", "a">>, <<>>}

OptionDefaults == {Leaf("d1"), Leaf("d2")}

GetOptionsAny ==
    \E options_data \in {OptionsNone} \cup {OptionsLoaded(d) : d \in OptionDicts},
       option_name \in OptionNames, default \in OptionDefaults :
        GetOptionsCall(options_data, option_name, default)

NextOptions ==
    \/ StartupBase
    \/ onDeinitialize
    \/ GetOptionsAny

SpecOptions == Init /\ [][NextOptions]_vars

(***************************************************************************)
(* The database connection on its own: Connect, Disconnect and GetSession  *)
(* called in any order, with the environment variable DATABASE_URL set or  *)
(* unset and with the library calls raising or not.                        *)
(***************************************************************************)
\* Database.Connect.
ConnectCall(fault) ==
    /\ LET r == Connect(database, fault)
       IN /\ database' = r.database
          /\ last' = [NoCall EXCEPT !.op = "Connect", !.ret = r.ret, !.faulted = r.raised]
    /\ UNCHANGED <<db, optionsData, appState, catalog, now, secretKey, expireTime, issued,
                   life, sessions, updates>>

\* Database.Disconnect.
DisconnectCall(disposeRaises) ==
    /\ LET r == Disconnect(database, disposeRaises)
       IN /\ database' = r.database
          /\ last' = [NoCall EXCEPT !.op = "Disconnect", !.ret = r.ret]
    /\ UNCHANGED <<db, optionsData, appState, catalog, now, secretKey, expireTime, issued,
                   life, sessions, updates>>

\* Database.GetSession; `flag` records whether a session came back.
GetSessionCall ==
    /\ database.open < MaxOpenSessions
    /\ database' = IF GetSession(database) THEN SessionOpened(database) ELSE database
    /\ last' = [NoCall EXCEPT !.op = "GetSession", !.flag = GetSession(database)]
    /\ UNCHANGED <<db, optionsData, appState, catalog, now, secretKey, expireTime, issued,
                   life, sessions, updates>>

\* `await session.close()` by the holder of a session.
CloseSession ==
    /\ database.open > 0
    /\ database' = SessionReleased(database, TRUE)
    /\ last' = [NoCall EXCEPT !.op = "CloseSession"]
    /\ UNCHANGED <<db, optionsData, appState, catalog, now, secretKey, expireTime, issued,
                   life, sessions, updates>>

\* The operator sets or unsets DATABASE_URL.
SetDatabaseUrl(present) ==
    /\ database.url # present
    /\ database' = [database EXCEPT !.url = present]
    /\ last' = [NoCall EXCEPT !.op = "SetDatabaseUrl"]
    /\ UNCHANGED <<db, optionsData, appState, catalog, now, secretKey, expireTime, issued,
                   life, sessions, updates>>

ConnectAny == \E fault \in ConnectFaults : ConnectCall(fault)

DisconnectAny == \E disposeRaises \in BOOLEAN : DisconnectCall(disposeRaises)

SetDatabaseUrlAny == \E present \in BOOLEAN : SetDatabaseUrl(present)

NextDatabase ==
    \/ ConnectAny
    \/ DisconnectAny
    \/ GetSessionCall
    \/ CloseSession
    \/ SetDatabaseUrlAny

SpecDatabase == Init /\ [][NextDatabase]_vars

(***************************************************************************)
(* Properties                                                              *)
(***************************************************************************)
\* The distinct <<roleName, permissionName>> pairs the edge table holds.
RolePermissionEdges(d) == DOMAIN d.role_permission_relation_table

UserRoleEdges(d) == DOMAIN d.user_role_relation_table

Edge(a, b) == <<a, b>>

\* C1: when the store raises at any point of Permissions.Initialize, the call
\* returns failure and every table is exactly what it was before the call.
C1_ReconcileAllOrNothing ==
    [][(last'.op = "Initialize" /\ last'.faulted) => (~last'.ret /\ db' = db)]_vars

\* C2: after a successful Initialize the Permission names are the catalog's
\* permissions, the Role names are the catalog's role keys, and the
\* role-permission edges are exactly the listed pairs whose permission is in
\* the catalog's permission list.
C2_ReconcileMatchesCatalog ==
    (last.op = "Initialize" /\ last.ret) =>
        /\ db.user_permission = Range(catalog.permissions)
        /\ db.user_role = {r \in RoleNames : catalog.roles[r].present}
        /\ RolePermissionEdges(db) =
             {e \in RoleNames \X PermNames :
                 /\ catalog.roles[e[1]].present
                 /\ e[2] \in Range(catalog.roles[e[1]].items)
                 /\ e[2] \in Range(catalog.permissions)}

\* A successful run that removed a permission and left 1 permission, 2 roles, 2 edges.
C2_Witness ==
    /\ last.op = "Initialize" /\ last.ret
    /\ <<"DeletePermissions", "-">> \in last.writes
    /\ Cardinality(db.user_permission) = 1
    /\ Cardinality(db.user_role) = 2
    /\ Cardinality(RolePermissionEdges(db)) = 2

\* C3: Initialize run again on the unchanged catalog, right after a successful
\* run, issues no insert and no delete and leaves the store as it is.
C3_ReconcileIdempotent ==
    [][(/\ appState = "serving"
        /\ last.op = "Initialize" /\ last.ret
        /\ last'.op = "Initialize" /\ last'.flag)
       => (last'.writes = {} /\ db' = db)]_vars

\* A second run has completed on a store that holds edges and no user.
C3_Witness ==
    /\ last.op = "Initialize" /\ last.flag /\ last.ret
    /\ last.writes = {}
    /\ db.user = {}
    /\ Cardinality(RolePermissionEdges(db)) = 3

\* C4: CheckUserPermission answers true exactly when some role is linked to
\* the user and to the permission.
C4_HasPermissionSoundComplete ==
    last.op = "CheckUserPermission" =>
        (last.ret <=>
            \E r \in RoleNames :
                /\ Edge(last.user, r) \in UserRoleEdges(db)
                /\ Edge(r, last.perm) \in RolePermissionEdges(db))

\* A check answered true, in a store where another permission is held by a
\* role the user does not have.
C4_Witness ==
    /\ last.op = "CheckUserPermission" /\ last.ret
    /\ \E r \in RoleNames, p \in PermNames :
          /\ Edge(last.user, r) \notin UserRoleEdges(db)
          /\ Edge(r, p) \in RolePermissionEdges(db)
          /\ p # last.perm

\* C5 (as stated): for every principal id, Verify(Issue(id)) succeeds with
\* subject id at any time before issuance time + configured TTL, and fails at
\* every time after issuance time + configured TTL.
C5_RoundTripConfiguredTTL ==
    \A i \in issued :
        (last.op = "VerifyJWT" /\ last.bearer = i.token) =>
            /\ (last.time < i.at + expireTime => last.ret /\ last.user = i.sub)
            /\ (last.time > i.at + expireTime => ~last.ret)

EffectiveTTL == IF expireTime < 1 THEN 1 ELSE expireTime

\* C5 (amended): the lifetime of a token is the configured TTL raised to at
\* least one second.  Verify of an issued token succeeds with the subject it
\* was issued for at any (whole-second) time before issuance + that lifetime,
\* and returns no claims at every time after it.
C5_RoundTripEffectiveTTL ==
    \A i \in issued :
        (last.op = "VerifyJWT" /\ last.bearer = i.token) =>
            /\ (last.time < i.at + EffectiveTTL => last.ret /\ last.user = i.sub)
            /\ (last.time > i.at + EffectiveTTL => ~last.ret)

C5_Witness ==
    /\ last.op = "VerifyJWT"
    /\ ~last.ret
    /\ \E i \in issued : /\ last.bearer = i.token
                         /\ i.at > 0
                         /\ last.time > i.at + EffectiveTTL

TokenInvalid(tok, t) == tok.kind # "jwt" \/ tok.key # secretKey \/ tok.exp < t

\* C6: Verify returns no claims whenever the token's signature does not
\* validate, the token is malformed or its expiry has passed, and a protected
\* route given such a token answers 401, never 5xx and never success.
C6_InvalidTokenIs401 ==
    /\ (last.op = "VerifyJWT" /\ TokenInvalid(last.bearer, last.time)) => ~last.ret
    /\ (last.op \in {"CurrentUser", "ListUsers"} /\ TokenInvalid(last.bearer, last.time))
           => last.status = 401

C6_Witness ==
    /\ last.op = "ListUsers"
    /\ last.bearer \in IssuedTokens
    /\ last.bearer.exp < last.time
    /\ last.status = 401

\* C7: while no signing secret is configured no token is ever issued, and a
\* Login or Register that got as far as issuing ends without a token.
C7_NoSecretNoToken ==
    secretKey = NoSecret =>
        /\ issued = {}
        /\ last.op \in {"Login", "Register"} =>
               last.token = NoToken /\ last.status \notin {200, 201}

C7_Witness ==
    /\ secretKey = NoSecret
    /\ last.op = "Login"
    /\ last.status = 500

\* C8: HashPassword of an empty plaintext returns no digest; VerifyPassword
\* returns false for an empty plaintext, an empty or malformed digest, a
\* mismatch or a failure of the hashing backend; Login of an existing user
\* answers 401 without a token in both the wrong-password and the
\* backend-failure case.
C8_CredentialVerifierFailClosed ==
    /\ (last.op = "HashPassword" /\ last.plain = "") => last.digest = NoDigest
    /\ (last.op = "VerifyPassword"
          /\ (\/ last.plain = ""
              \/ last.digest.scheme # "bcrypt"
              \/ last.digest.of # last.plain
              \/ last.flag)) => ~last.ret
    /\ last.op = "Login" =>
           \A u \in FromUsername(db, last.user) :
               (u.passwordHash # BcryptDigest(last.plain) \/ last.flag) =>
                   last.status = 401 /\ last.token = NoToken

C8_Witness ==
    /\ last.op = "Login"
    /\ last.flag
    /\ last.status = 401
    /\ \E u \in FromUsername(db, last.user) : u.passwordHash = BcryptDigest(last.plain)

\* C9: a catalog whose permissions are not a list, whose roles are not a
\* mapping of lists, or whose options are not a mapping makes Initialize
\* fail without any insert, delete or commit; the store is unchanged and
\* the service does not start.
C9_MalformedCatalogRejected ==
    [][(/\ last'.op = "Initialize"
        /\ \/ ~catalog'.permissionsIsList
           \/ ~catalog'.rolesIsDict
           \/ \E r \in RoleNames : catalog'.roles[r].present /\ ~catalog'.roles[r].isList
           \/ ~catalog'.optionsIsDict)
       => (/\ ~last'.ret
           /\ last'.writes = {}
           /\ last'.commits = 0
           /\ db' = db
           /\ appState' = "down")]_vars

\* Initialize has met a catalog with a non-list role value on a non-empty store.
C9_Witness ==
    /\ last.op = "Initialize"
    /\ catalog.rolesIsDict
    /\ \E r \in RoleNames : catalog.roles[r].present /\ ~catalog.roles[r].isList
    /\ db.user_permission # {}
    /\ RolePermissionEdges(db) # {}

\* C10: a role that lists a permission missing from the top-level list does
\* not make the catalog malformed: Initialize succeeds unless the store
\* raises, the missing permission gets no row and no edge, and the role's
\* other listed permissions are assigned.
C10_TolerantCatalogParsing ==
    (/\ last.op = "Initialize"
     /\ catalog.parses /\ catalog.permissionsIsList /\ catalog.rolesIsDict
     /\ catalog.optionsIsDict
     /\ \A r \in RoleNames : catalog.roles[r].present => catalog.roles[r].isList
     /\ \E r \in RoleNames :
           /\ catalog.roles[r].present
           /\ Range(catalog.roles[r].items) \ Range(catalog.permissions) # {})
    => /\ ~last.faulted => last.ret
       /\ last.ret =>
            \A r \in RoleNames : \A p \in Range(catalog.roles[r].items) :
                catalog.roles[r].present =>
                    IF p \in Range(catalog.permissions)
                    THEN Edge(r, p) \in RolePermissionEdges(db)
                    ELSE /\ p \notin db.user_permission
                         /\ Edge(r, p) \notin RolePermissionEdges(db)

\* admin lists user.list and user.set_permission, only user.list is a permission.
C10_Witness ==
    /\ last.op = "Initialize" /\ last.ret
    /\ catalog.permissions = <<"user.list">>
    /\ catalog.roles["admin"].present
    /\ catalog.roles["admin"].items = <<"user.list", "user.set_permission">>
    /\ Edge("admin", "user.list") \in RolePermissionEdges(db)

\* C20: the store never holds two role-permission rows with the same
\* (roleName, permissionName) pair, whatever catalogs the successful and
\* failed runs of Initialize were given.
C20_RolePermissionEdgesUnique ==
    \A e \in DOMAIN db.role_permission_relation_table :
        db.role_permission_relation_table[e] = 1

\* A second successful run on a catalog that lists a permission twice for
\* a role, with that edge in the store.
C20_Witness ==
    /\ last.op = "Initialize"
    /\ last.ret
    /\ last.flag
    /\ catalog.roles["user"].items = <<"user.set_permission", "user.set_permission">>
    /\ Edge("user", "user.set_permission") \in RolePermissionEdges(db)

LastCheckHasChain ==
    \E r \in RoleNames :
        /\ Edge(last.user, r) \in UserRoleEdges(db)
        /\ Edge(r, last.perm) \in RolePermissionEdges(db)

\* C14 (as stated): CheckUserPermission returns false, never an error, when
\* the user does not exist or holds no role carrying the permission; it does
\* not itself check that the user exists.
C14_HasPermissionNeverErrors ==
    (last.op = "CheckUserPermission"
       /\ (last.user \notin UserRowIds(db) \/ ~LastCheckHasChain))
        => (last.status = 200 /\ ~last.ret)

\* C14 (amended): called with check_user_exists=False, as every route calls
\* it, CheckUserPermission returns false, never an error, when the user does
\* not exist or holds no role carrying the permission; called with
\* check_user_exists=True, its default, it checks the user itself and
\* answers 404 for a user that does not exist, false for one without a
\* matching role.
C14_HasPermissionFalseUnlessAskedToCheck ==
    last.op = "CheckUserPermission" =>
        /\ (~last.flag /\ (last.user \notin UserRowIds(db) \/ ~LastCheckHasChain))
               => (last.status = 200 /\ ~last.ret)
        /\ (last.flag /\ last.user \notin UserRowIds(db)) => last.status = 404
        /\ (last.flag /\ last.user \in UserRowIds(db) /\ ~LastCheckHasChain)
               => (last.status = 200 /\ ~last.ret)

\* A check without the existence test, for a user id the store does not
\* have, of a permission some role carries.
C14_Witness ==
    /\ last.op = "CheckUserPermission"
    /\ ~last.flag
    /\ last.user \notin UserRowIds(db)
    /\ db.user # {}
    /\ \E r \in RoleNames : Edge(r, last.perm) \in RolePermissionEdges(db)
    /\ last.status = 200
    /\ ~last.ret

\* The operations that are request handlers.
RequestOps ==
    {"Register", "Login", "CurrentUser", "ListUsers", "CreateUser", "UpdateUser",
     "DeleteUser", "SetUserRoles", "CheckUserPermission"}

\* C11: in every execution of the service Permissions.Initialize has run
\* exactly once, and to its end, when requests are accepted; no request
\* handler takes a step while a run is in progress; and no two runs are in
\* progress together.
C11_ReconcileOnceBeforeRequests ==
    /\ [](AcceptsRequests(appState) => (life.started = 1 /\ life.finished = 1))
    /\ [](life.started - life.finished \in {0, 1})
    /\ [][last'.op \in RequestOps =>
            (appState = "serving" /\ life.started = 1 /\ life.finished = 1)]_vars

\* A request has been answered by a process whose only run has finished.
C11_Witness ==
    /\ last.op = "Register"
    /\ last.status = 201
    /\ appState = "serving"
    /\ life = [started |-> 1, finished |-> 1, failed |-> FALSE]

\* C12: once the start of a process has failed (the catalog does not load
\* or Permissions.Initialize fails), that process accepts no request and
\* starts no further run of Permissions.Initialize.
C12_FailedStartNeverServes ==
    /\ [](life.failed => (appState = "down" /\ life.started = life.finished
                                            /\ life.started <= 1))
    /\ [][(life.failed /\ last'.op \notin {"LifespanEnter", "EditCatalog"})
             => UNCHANGED <<life, appState, db>>]_vars

\* A run of Permissions.Initialize has failed on a store error and the
\* process is down.
C12_Witness ==
    /\ life = [started |-> 1, finished |-> 1, failed |-> TRUE]
    /\ last.op = "Initialize"
    /\ last.faulted
    /\ ~last.ret
    /\ appState = "down"

\* Whether one of `roles` carries the permission in store d.
RolesCarry(d, roles, permission_name) ==
    \E r \in roles : Edge(r, permission_name) \in RolePermissionEdges(d)

\* C15: a permission check of user U made while a SetUserRoles(U, newRoles)
\* is between its delete and its insert answers as U's complete role set
\* from before the operation answers, or as the complete newRoles set
\* answers; it never answers from the state with the old edges deleted and
\* the new ones not yet inserted.
C15_CheckSeesOldOrNewRoleSet ==
    [][\A s \in SessionIds :
          (/\ last'.op = "CheckUserPermission"
           /\ sessions[s].pc = "deleted"
           /\ sessions[s].user = last'.user)
          => \/ last'.ret = RolesCarry(db, sessions[s].before, last'.perm)
             \/ last'.ret = RolesCarry(db, sessions[s].roles, last'.perm)]_vars

\* A check of an administrator whose roles are being replaced by {user},
\* made after the delete statement and before the commit, has answered TRUE.
C15_Witness ==
    /\ last.op = "CheckUserPermission"
    /\ last.perm = "user.list"
    /\ last.ret
    /\ \E s \in SessionIds :
          /\ sessions[s].pc = "deleted"
          /\ sessions[s].user = last.user
          /\ sessions[s].before = {"admin"}
          /\ sessions[s].roles = {"user"}
          /\ GetRolesOfUser(sessions[s].tx, last.user) = {}

\* C19: after n successful updates of a user, in any interleaving of the
\* requests, the stored version is n + 1.
C19_VersionCountsUpdates ==
    \A u \in db.user : u.version = updates[u.id] + InitialVersion

\* The permission each guarded route asks for.
RequiredPermission ==
    [ListUsers |-> "user.list", CreateUser |-> "user.create",
     SetUserRoles |-> "user.set_permission", UpdateUser |-> "user.update",
     DeleteUser |-> "user.delete"]

HoldsPermission(d, user_id, permission_name) ==
    \E r \in RoleNames :
        /\ Edge(user_id, r) \in UserRoleEdges(d)
        /\ Edge(r, permission_name) \in RolePermissionEdges(d)

\* C16: on a permission-guarded route a token that does not verify is
\* answered 401 and a verified subject without the route's permission (and,
\* for update and delete, acting on another account) is answered 403, both
\* without any change to the store; the route succeeds or changes the store
\* only for a verified subject that holds the permission (or, for update
\* and delete, acts on its own account).
C16_GuardedRoutes ==
    [][LET op == last'.op
           tok == last'.bearer
           verified == ~TokenInvalid(tok, now)
           ownAccount == op \in {"UpdateUser", "DeleteUser"} /\ tok.sub = last'.user
           permitted == ownAccount \/ HoldsPermission(db, tok.sub, RequiredPermission[op])
       IN op \in DOMAIN RequiredPermission =>
            /\ ~verified => (last'.status = 401 /\ db' = db)
            /\ (verified /\ ~permitted /\ tok.sub \in UserRowIds(db))
                   => (last'.status = 403 /\ db' = db)
            /\ (db' # db \/ last'.status \in {200, 201}) => (verified /\ permitted)]_vars

\* An administrator has created a second user through the guarded route.
C16_Witness ==
    /\ last.op = "CreateUser"
    /\ last.status = 201
    /\ last.bearer.sub = "id1"
    /\ "id2" \in UserRowIds(db)
    /\ HoldsPermission(db, "id1", "user.create")

\* C17: no request changes the permission rows, the role rows or the
\* role-permission edges; only Initialize does.
C17_OnlyReconcileChangesCatalogTables ==
    [][last'.op # "Initialize" =>
          /\ db'.user_permission = db.user_permission
          /\ db'.user_role = db.user_role
          /\ db'.role_permission_relation_table = db.role_permission_relation_table]_vars

\* A successful role-set call has changed a user's edges in a store that
\* holds the catalog's permissions, roles and edges.
C17_Witness ==
    /\ last.op = "SetUserRoles"
    /\ last.status = 200
    /\ GetRolesOfUser(db, last.user) = {"user"}
    /\ db.user_role = RoleNames
    /\ Cardinality(RolePermissionEdges(db)) = 6

\* C18: a successful Initialize leaves the user rows as they were and the
\* user-role edges equal to the previous ones restricted to the roles the
\* catalog still declares; it creates no user-role edge.
C18_ReconcileKeepsUsers ==
    [][(last'.op = "Initialize" /\ last'.ret) =>
          /\ db'.user = db.user
          /\ db'.user_role_relation_table =
                 RowsWhere(db.user_role_relation_table,
                           {e \in UserRoleEdges(db) : e[2] \in CatalogRoleNames(catalog)})]_vars

\* A successful run on a catalog without the role "user", on a store that
\* still has a user holding another role.
C18_Witness ==
    /\ last.op = "Initialize"
    /\ last.ret
    /\ ~catalog.roles["user"].present
    /\ \E u \in db.user : <<u.id, "admin">> \in UserRoleEdges(db)

\* C29: a login attempt with an unknown username and one with a known
\* username and a wrong password have the same outcome, 401, and neither is
\* given a token.
C29_LoginHidesUsernames ==
    (/\ last.op = "Login"
     /\ \/ FromUsername(db, last.user) = {}
        \/ \E u \in FromUsername(db, last.user) :
              ~VerifyPassword(last.plain, u.passwordHash, last.flag))
    => (last.status = 401 /\ last.token = NoToken)

\* C22: Verify of a token the service has issued, under the secret it was
\* signed with and not after its expiry, succeeds with the token's subject
\* whatever the store holds (the subject's roles replaced, the subject
\* deleted), and a Verify step changes neither the store nor the issued
\* tokens.
C22_VerifyPureNoRevocation ==
    [][last'.op = "VerifyJWT" =>
          /\ db' = db
          /\ issued' = issued
          /\ \A i \in issued :
                (/\ last'.bearer = i.token
                 /\ i.token.key = secretKey
                 /\ now <= i.token.exp)
                => (last'.ret /\ last'.user = i.sub)]_vars

\* A token still verifies after its subject has lost every role.
C22_Witness ==
    /\ last.op = "VerifyJWT"
    /\ last.ret
    /\ last.bearer \in IssuedTokens
    /\ last.user \in UserRowIds(db)
    /\ GetRolesOfUser(db, last.user) = {}

\* The role names of the user's edge rows in store d.
RolesLinked(d, user_id) == {e[2] : e \in {x \in UserRoleEdges(d) : x[1] = user_id}}

\* C24: after a successful SetUserRoles(U, S) the roles linked to U are
\* exactly S, one edge row each, and the other users' edges are as before;
\* after a failed call (401, 403, 404, 400, 409) the edge rows are exactly
\* what they were, also when the failing call is the one Register makes.
C24_SetUserRolesReplaces ==
    [][LET U == last'.user
           S == Range(last'.roles)
           others(d) == RowsWhere(d.user_role_relation_table,
                                  {e \in UserRoleEdges(d) : e[1] # U})
       IN /\ (last'.op = "SetUserRoles" /\ last'.status = 200) =>
                /\ RolesLinked(db', U) = S
                /\ \A r \in S : db'.user_role_relation_table[Edge(U, r)] = 1
                /\ others(db') = others(db)
          /\ (last'.op = "SetUserRoles" /\ last'.status # 200) =>
                db'.user_role_relation_table = db.user_role_relation_table
          /\ (last'.op = "Register" /\ last'.status = 409) =>
                db'.user_role_relation_table = db.user_role_relation_table]_vars

\* A call that names the same role twice has succeeded.
C24_Witness ==
    /\ last.op = "SetUserRoles"
    /\ last.status = 200
    /\ last.roles = <<"user", "user">>
    /\ RolesLinked(db, last.user) = {"user"}
    /\ db.user_role_relation_table[Edge(last.user, "user")] = 1

\* C26: after a Register request, answered with success or with an error,
\* the user row it has left in the store is linked to the default role.
C26_RegisterAllOrNothing ==
    (last.op = "Register" /\ last.user \in UserRowIds(db))
        => Edge(last.user, GetDefaultRole(optionsData)) \in UserRoleEdges(db)

\* C25: GetOptions raises before Initialize has loaded the options; after
\* that a name without '.' returns the top-level value of that key, a name
\* 'x.y' returns options[x][y] when that path exists, and a name whose path
\* does not exist returns the default.
C25_GetOptionsResolvesPath ==
    last.op = "GetOptions" =>
        LET data == last.options.data
            steps == Split(last.path, OPTIONS_NAME_SEPERATOR)
            top == steps[1]
            sub == steps[2]
            nested == top \in DOMAIN data /\ data[top].isDict
        IN IF ~last.options.loaded THEN last.result.raised
           ELSE /\ (Len(steps) = 1 /\ top \in DOMAIN data)
                     => last.result = Returned(data[top])
                /\ (Len(steps) = 1 /\ top \notin DOMAIN data)
                     => last.result = Returned(last.default)
                /\ (Len(steps) = 2 /\ nested /\ sub \in DOMAIN data[top].items)
                     => last.result = Returned(data[top].items[sub])
                /\ (Len(steps) = 2 /\ nested /\ sub \notin DOMAIN data[top].items)
                     => last.result = Returned(last.default)
                /\ (Len(steps) = 2 /\ top \notin DOMAIN data)
                     => last.result = Returned(last.default)

\* C30: after any sequence of Connect and Disconnect calls the engine is set
\* exactly when the SessionFactory is set; Connect on a connected database
\* and Disconnect on a disconnected one change nothing and return True;
\* GetSession returns a session exactly when the database is connected; and
\* after Disconnect the database is disconnected.
C30_ConnectionLifecycle ==
    /\ [](database.engine <=> database.SessionFactory)
    /\ [][/\ ((last'.op = "Connect" /\ IsConnected(database))
                   => (last'.ret /\ ~last'.faulted /\ database' = database))
           /\ ((last'.op = "Disconnect" /\ ~IsConnected(database))
                   => (last'.ret /\ database' = database))
           /\ ((last'.op = "GetSession")
                   => (last'.flag <=> IsConnected(database)))
           /\ ((last'.op = "Disconnect")
                   => (~IsConnected(database') /\ ~GetSession(database')))]_vars

\* The sessions the application holds at this moment: the one of a running
\* Permissions.Initialize and one per request in flight.
SessionsInUse ==
    (IF appState = "reconciling" THEN 1 ELSE 0)
    + Cardinality({s \in SessionIds : sessions[s].pc # "idle"})

\* C21: every session the application opens is released on every exit path:
\* the session of Permissions.Initialize is closed when it returns True, when
\* it returns False on a malformed catalog and when the store raises; the
\* session of a request is closed when the request ends and a request that
\* ends in an error leaves the committed store as it was; no session stays
\* open after its operation has finished.
C21_SessionsReleased ==
    /\ [](database.open = SessionsInUse)
    /\ [][/\ (last'.op = "Initialize" => database'.open = database.open - 1)
           /\ ((last'.op \in {"SetUserRolesAdd", "UpdateUserCommit"})
                   => database'.open = database.open - 1)
           /\ ((last'.op \in {"SetUserRolesDelete", "UpdateUserLoad", "SetUserRolesAdd",
                               "UpdateUserCommit"} /\ last'.status \notin {0, 200})
                   => (db' = db /\ database'.open = SessionsInUse'))]_vars

C21_Witness ==
    /\ last.op = "Initialize"
    /\ last.faulted
    /\ ~last.ret
    /\ database.open = 0
    /\ life.failed

\* C23: Permissions.Initialize runs the permission diff, then the role diff,
\* then the per-role assignment diff; every <<role, permission>> row it
\* inserts references a role and a permission that exist in the transaction
\* at that moment; the assignment diff is computed only for roles that are
\* in the role table after the role phase and only against permissions that
\* are in the permission table after the permission phase.
C23_PhaseOrder ==
    [][(last'.op = "Initialize" /\ catalog.parses /\ CatalogFormatOk(catalog)
            /\ ~last'.faulted)
        => LET t1 == PermissionPhase(db, catalog)
               t2 == RolePhase(t1, catalog)
               roles_name == CatalogRoleNames(catalog)
           IN /\ t1.user_permission = CatalogPermissions(catalog)
              /\ t2.user_permission = t1.user_permission
              /\ t2.user_role = roles_name
              /\ \A role \in roles_name :
                    /\ role \in t2.user_role
                    /\ RolePerms(catalog, role) \subseteq t1.user_permission
                    /\ \A e \in SyncRoleInserts(t2, catalog, role) :
                          e[1] \in t2.user_role /\ e[2] \in t2.user_permission
              /\ last'.ret
              /\ db' = SyncRoles(t2, catalog, roles_name)
              /\ RolePermissionEdges(db') =
                    {<<role, perm>> \in roles_name \X CatalogPermissions(catalog) :
                        perm \in RolePerms(catalog, role)}]_vars

C23_Witness ==
    /\ last.op = "Initialize"
    /\ last.ret
    /\ <<"DeletePermissions", "-">> \in last.writes
    /\ <<"DeleteRoles", "-">> \in last.writes
    /\ \E role \in RoleNames : <<"AddPermissionsOfRole", role>> \in last.writes

\* C27: once two SetUserRoles calls for the same user with role sets S1 and
\* S2 have both completed, whatever their interleaving, the user's rows of
\* user_role_relation_table are exactly S1 or exactly S2: no pair
\* <<userId, roleName>> is stored more than once and the two sets are not
\* mixed.
C27_ConcurrentSetUserRoles ==
    \A s1, s2 \in SessionIds :
        (/\ s1 # s2
         /\ sessions[s1].op = "SetUserRoles"
         /\ sessions[s2].op = "SetUserRoles"
         /\ sessions[s1].pc = "done"
         /\ sessions[s2].pc \in {"done", "failed"}
         /\ sessions[s1].user = sessions[s2].user)
        => /\ \/ RolesLinked(db, sessions[s1].user) = sessions[s1].roles
              \/ /\ sessions[s2].pc = "done"
                 /\ RolesLinked(db, sessions[s1].user) = sessions[s2].roles
           /\ \A e \in UserRoleEdges(db) :
                 e[1] = sessions[s1].user => db.user_role_relation_table[e] = 1

C27_Witness ==
    /\ sessions["s1"].pc = "done"
    /\ sessions["s2"].pc = "done"
    /\ sessions["s1"].roles = {"admin"}
    /\ sessions["s2"].roles = {"user"}
    /\ last.op = "SetUserRolesCommit"
    /\ RolesLinked(db, "id1") = {"user"}

\* C28: a user who holds a role of the 'not_deletable_role' option is never
\* deleted by DELETE /user/{user_id}: an authorised request for such a user
\* is answered 400 and leaves the user row and the edge rows as they were,
\* also when a SetUserRoles that grants the role has committed between the
\* role check of the request and its delete.
C28_NotDeletableNeverDeleted ==
    [][(/\ \/ last'.op = "DeleteUserExecute"
            \/ (last'.op = "DeleteUserCheck" /\ last'.status \notin {0, 401, 403})
        /\ last'.user \in UserRowIds(db)
        /\ GetRolesOfUser(db, last'.user) \cap NotDeletableRoles(optionsData) # {})
        => (last'.status = 400 /\ db' = db)]_vars

====
